---------------------------- MODULE Spec2Model ----------------------------
(***************************************************************************)
(* Model of the registration step (cl_algo::ICP::ICPStep, four variants)   *)
(* and of the convergence controller (cl_algo::ICP::ICP) of the ICP        *)
(* library, src/src/ICP/algorithms.cpp and src/include/ICP/algorithms.hpp. *)
(*                                                                         *)
(* One session object is modelled.  The host thread is at position pc:     *)
(* "ready" between API calls, otherwise the next stage of the step that is *)
(* executing, or "check" inside ICP::run.                                  *)
(*                                                                         *)
(* Rotations are 3x3 integer matrices taken from the rotation group of the *)
(* tetrahedron; a quaternion (x, y, z, w) is stored with every component   *)
(* doubled, which keeps the unit quaternions of that group integral.       *)
(* The estimator read-backs (centroids, covariance bundle, SVD factor, or  *)
(* the power method's T_k) are inputs drawn from small sets.               *)
(***************************************************************************)
EXTENDS Integers, Sequences, FiniteSets, TLC

VARIABLES
    cls,                    \* class of the session object: "ICP" or "ICPStep"
    CR,                     \* template parameter ICPStepConfigT
    CW,                     \* template parameter ICPStepConfigW
    staging,                \* ICPStep::staging
    max_iterations,         \* ICP::max_iterations
    angle_threshold,        \* ICP::angle_threshold (degrees)
    translation_threshold,  \* ICP::translation_threshold
    k,                      \* ICP::k
    R, q, t, s,             \* cumulative transform on the host
    Rk, qk, tk, sk,         \* incremental transform on the host
    hPtrIOT,                \* host staging area of the transform, <<q, t, s>>
    dBufferIOT,             \* device transform buffer, <<q, t, s>>
    dIOTsrc,                \* who wrote dBufferIOT last
    built,                  \* the RBC index has been built since init
    pc,                     \* position of the host thread
    op,                     \* API call executing, or the last one completed
    config,                 \* argument config of the executing ICPStep::run
    profiling,              \* the executing ICPStep::run is the profiling overload
    log,                    \* stages executed by the current ICPStep::run call
    steps,                  \* steps executed since the last buildRBC
    total,                  \* steps executed since init
    runSteps,               \* steps executed by the current ICP::run call
    kAtRun,                 \* value of k when the current ICP::run call began
    allAbove,               \* no check of the current ICP::run saw deltas below the thresholds
    allIdentity,            \* every step of the current ICP::run yielded angle 0 and t_k = 0
    seqP,                   \* images of the probe points under T_1, ..., T_n applied in turn
    userT,                  \* estimate loaded with write (D_IO_T) since init, or <<>>
    \* One kernel-class object seen on its own (a Reduce, Scan, ICPReps or
    \* ICPStep instance): construction, init, then the calls that enqueue
    kind,                   \* class of the object
    wgMultiple,             \* CL_KERNEL_PREFERRED_WORK_GROUP_SIZE_MULTIPLE read by the constructor
    obj,                    \* fields init has assigned (cols, rows, wgXdim; nr, nrx, nry; m, nr, a, c)
    status,                 \* "constructed", "initialised", or "exited" (exit (EXIT_FAILURE))
    message,                \* what was written to std::cerr, <<class, text>>, or <<>>
    buffers,                \* number of cl::Buffer objects created
    commands,               \* number of map, unmap and write commands enqueued
    kernels,                \* kernels enqueued, in order
    \* One estimation of the incremental transform from matched pairs
    pairs,                  \* the matched pairs: fixed and moving points, weights, c, and the relation that made them
    est,                    \* what the stages have computed from them so far
    \* The command queues of one session
    queueOf,                \* the queue of the RBC stages and the queue of the ICP stages
    pending,                \* per queue, the commands enqueued and not yet started
    running,                \* commands executing on the device
    finished,               \* commands that have completed
    early,                  \* <<consumer, producer>>: the consumer started before the producer had finished
    hostAt,                 \* position of the host thread
    \* Two sessions of the applications in one process
    stepConfig,             \* static bool config of ICPSBS<RC, WC>::step, per instantiation
    stepK,                  \* static int k of ICPSBS<RC, WC>::step, per instantiation
    sessions,               \* per session: its class, the config passed to each first step, the iteration numbers printed,
                            \* the loads of its clouds, the load its index was built from, and both at each search
    \* One application of a function of the library to one input
    input,                  \* the arguments
    output,                 \* the result, or <<>> before the call
    \* One object of the library through repeated init, write, read and run
    conf,                   \* its class and the members set by the latest init
    mem,                    \* per memory handle: the size of the memory object (0: null) and who set it
    trace                   \* the latest call of write, read or run: what it enqueued and returned

objVars == <<kind, wgMultiple, obj, status, message, buffers, commands, kernels>>

estVars == <<pairs, est>>

queueVars == <<queueOf, pending, running, finished, early, hostAt>>

appVars == <<stepConfig, stepK, sessions>>

fnVars == <<input, output>>

memVars == <<conf, mem, trace>>

sideVars == <<objVars, estVars, queueVars, appVars, fnVars, memVars>>

vars == <<sideVars, cls, CR, CW, staging, max_iterations, angle_threshold,
          translation_threshold, k, R, q, t, s, Rk, qk, tk, sk, hPtrIOT,
          dBufferIOT, dIOTsrc, built, pc, op, config, profiling, log, steps,
          total, runSteps, kAtRun, allAbove, allIdentity, seqP, userT>>

cfgVars == <<cls, CR, CW, staging, max_iterations, angle_threshold,
             translation_threshold>>

---------------------------------------------------------------------------
\* Bounds of the model

MaxIter == 2        \* max_iterations ranges over 0 .. MaxIter
MaxSteps == 3       \* steps executed between two calls of init
MaxCols == 12       \* cols of a Reduce or Scan: 0 .. MaxCols, and the values around the limits
MaxNr == 16         \* nr ranges over 0 .. MaxNr
MaxM == 17          \* m ranges over 0 .. MaxM
MaxCalls == 2       \* calls of step or registerPC made on one application session

---------------------------------------------------------------------------
\* Linear algebra on integer vectors and matrices (Eigen expressions)

I3 == << <<1, 0, 0>>, <<0, 1, 0>>, <<0, 0, 1>> >>
Rz180 == << <<-1, 0, 0>>, <<0, -1, 0>>, <<0, 0, 1>> >>
R120 == << <<0, 0, 1>>, <<1, 0, 0>>, <<0, 1, 0>> >>
Zero3 == <<0, 0, 0>>

\* The special values of a float: quiet not-a-number and the two infinities,
\* kept apart from every number the model computes with
NaN == -1000003
PInf == 1000001
NInf == -1000001

\* The values that are numbers
Finite == (NInf + 1)..(PInf - 1)

IsFinite(x) == x \in Finite

FSign(x) ==
    IF x = PInf THEN 1 ELSE IF x = NInf THEN -1
    ELSE IF x > 0 THEN 1 ELSE IF x < 0 THEN -1 ELSE 0

\* float operator -
FNeg(x) ==
    IF IsFinite(x) THEN 0 - x
    ELSE IF x = NaN THEN NaN ELSE IF x = PInf THEN NInf ELSE PInf

\* float operator +
FAdd(x, y) ==
    IF IsFinite(x) /\ IsFinite(y) THEN x + y
    ELSE IF x = NaN \/ y = NaN THEN NaN
    ELSE IF IsFinite(x) THEN y
    ELSE IF IsFinite(y) THEN x
    ELSE IF x = y THEN x ELSE NaN

\* float operator - (binary)
FSub(x, y) == FAdd(x, FNeg(y))

\* float operator *
FMul(x, y) ==
    IF IsFinite(x) /\ IsFinite(y) THEN x * y
    ELSE IF x = NaN \/ y = NaN THEN NaN
    ELSE LET sg == FSign(x) * FSign(y) IN
         IF sg = 0 THEN NaN ELSE IF sg > 0 THEN PInf ELSE NInf

\* float operator / (exact on the quotients the model produces)
FDiv(x, y) ==
    IF x = NaN \/ y = NaN THEN NaN
    ELSE IF IsFinite(x) /\ IsFinite(y)
         THEN IF y # 0 THEN x \div y
              ELSE IF x = 0 THEN NaN ELSE IF x > 0 THEN PInf ELSE NInf
    ELSE IF IsFinite(y) THEN (IF FSign(x) * (IF y < 0 THEN -1 ELSE 1) > 0 THEN PInf ELSE NInf)
    ELSE IF IsFinite(x) THEN 0
    ELSE NaN

\* Mutant of FLt: an unordered comparison counts as less
FLtUnordered(x, y) ==
    IF x = NaN \/ y = NaN THEN TRUE
    ELSE IF x = y THEN FALSE
    ELSE IF x = NInf \/ y = PInf THEN TRUE
    ELSE IF x = PInf \/ y = NInf THEN FALSE
    ELSE x < y

\* float operator <: false whenever an operand is not-a-number
FLt(x, y) ==
    IF x = NaN \/ y = NaN THEN FALSE
    ELSE IF x = y THEN FALSE
    ELSE IF x = NInf \/ y = PInf THEN TRUE
    ELSE IF x = PInf \/ y = NInf THEN FALSE
    ELSE x < y

\* Every entry of the vector or quaternion is a number
FiniteVec(v) == v \in [DOMAIN v -> Finite]

\* Every entry of the matrix is a number
FiniteMat(m) == m \in [1..3 -> [1..3 -> Finite]]

MatMul(A, B) ==
    [i \in 1..3 |-> [j \in 1..3 |->
        FAdd(FAdd(FMul(A[i][1], B[1][j]), FMul(A[i][2], B[2][j])),
             FMul(A[i][3], B[3][j]))]]

MatVec(A, v) ==
    [i \in 1..3 |->
        FAdd(FAdd(FMul(A[i][1], v[1]), FMul(A[i][2], v[2])), FMul(A[i][3], v[3]))]

VecAdd(u, v) == [i \in 1..3 |-> FAdd(u[i], v[i])]

VecSub(u, v) == [i \in 1..3 |-> FSub(u[i], v[i])]

VecScale(c, v) == [i \in 1..3 |-> FMul(c, v[i])]

SquaredNorm(v) == FAdd(FAdd(FMul(v[1], v[1]), FMul(v[2], v[2])), FMul(v[3], v[3]))

\* std::sqrt on the perfect squares the model produces
ISqrt(n) == CHOOSE r \in 0..n : r * r = n

\* std::sqrt on a float
FSqrt(x) ==
    IF x = NaN \/ x = NInf THEN NaN
    ELSE IF x = PInf THEN PInf
    ELSE IF x < 0 THEN NaN
    ELSE ISqrt(x)

NaN3 == <<NaN, NaN, NaN>>
NaN4 == <<NaN, NaN, NaN, NaN>>
NaN33 == <<NaN3, NaN3, NaN3>>

\* Eigen::Quaternionf (R): rotation matrix to quaternion, components doubled
QuatFromMat(m) ==
    LET tr == m[1][1] + m[2][2] + m[3][3] IN
    \* on a matrix of not-a-numbers every comparison is false and the root
    \* taken is not a number: so is every coefficient
    IF ~FiniteMat(m) THEN NaN4
    ELSE IF tr > 0
    THEN LET root == ISqrt(tr + 1) IN
         << (m[3][2] - m[2][3]) \div root,
            (m[1][3] - m[3][1]) \div root,
            (m[2][1] - m[1][2]) \div root,
            root >>
    ELSE LET i0 == IF m[2][2] > m[1][1] THEN 2 ELSE 1
             i == IF m[3][3] > m[i0][i0] THEN 3 ELSE i0
             j == (i % 3) + 1
             l == (j % 3) + 1
             root == ISqrt(m[i][i] - m[j][j] - m[l][l] + 1)
             c == [n \in 1..3 |->
                    IF n = i THEN root
                    ELSE IF n = j THEN (m[j][i] + m[i][j]) \div root
                    ELSE (m[l][i] + m[i][l]) \div root]
         IN << c[1], c[2], c[3], (m[l][j] - m[j][l]) \div root >>

\* Eigen::Quaternionf::toRotationMatrix, quaternion components doubled
MatFromQuat(Q) ==
    LET x == Q[1]  y == Q[2]  z == Q[3]  w == Q[4] IN
    IF ~FiniteVec(Q) THEN NaN33 ELSE
    << << 1 - (y * y + z * z) \div 2, (x * y - w * z) \div 2, (x * z + w * y) \div 2 >>,
       << (x * y + w * z) \div 2, 1 - (x * x + z * z) \div 2, (y * z - w * x) \div 2 >>,
       << (x * z - w * y) \div 2, (y * z + w * x) \div 2, 1 - (x * x + y * y) \div 2 >> >>

\* 180 / pi * 2 * atan2 (|q.vec|, q.w) on the quaternions of the model
AngleDeg(Q) ==
    LET vn == Q[1] * Q[1] + Q[2] * Q[2] + Q[3] * Q[3] IN
    IF ~FiniteVec(Q) THEN NaN
    ELSE IF vn = 0 THEN (IF Q[4] >= 0 THEN 0 ELSE 360)
    ELSE IF Q[4] = 0 THEN 180
    ELSE IF Q[4] > 0 THEN 120 ELSE 240

QIdentity == <<0, 0, 0, 2>>

\* cl_float T0[8] = { 0, 0, 0, 1, 0, 0, 0, 1 }
TIdentity == <<QIdentity, Zero3, 1>>

\* hPtrIOT <- q.coeffs (), t.homogeneous (), s
Pack(Q, T, S) == <<Q, T, S>>

\* Mutant of DeviceAfterWrite: the write never reaches the device buffer
DeviceAfterWriteLost(host, device) == device

\* queue.enqueueWriteBuffer (dBufferIOT, CL_FALSE, 0, bufferTSize, hPtrIOT, nullptr, event):
\* the content of the device buffer once the write has executed
DeviceAfterWrite(host, device) == host

---------------------------------------------------------------------------
\* Inputs

Variants == {"EIGEN", "POWER_METHOD"}
Weightings == {"REGULAR", "WEIGHTED"}
Stagings == {"NONE", "I", "O", "IO"}
AngleThresholds == {0, 1}
TranslationThresholds == {0, 1}

\* What the host reads back in the closed-form variants: the two centroids,
\* the scalar sums Sij[9] and Sij[10], and the factor V * U^T of the SVD of S
\* (made proper when its determinant is negative).
Readbacks ==
    { [mf |-> <<1, 2, 0>>, mm |-> <<1, 2, 0>>, S9 |-> 1, S10 |-> 1, rot |-> I3],
      [mf |-> <<1, 0, 0>>, mm |-> Zero3,       S9 |-> 4, S10 |-> 1, rot |-> Rz180],
      [mf |-> Zero3,       mm |-> <<1, 0, 0>>, S9 |-> 1, S10 |-> 1, rot |-> R120] }

\* What the power method kernel leaves in D_OUT_T_K
PowerOutputs ==
    { <<QIdentity, Zero3, 1>>,
      <<<<0, 0, 2, 0>>, <<1, 0, 0>>, 2>>,
      <<<<1, 1, 1, 1>>, <<0, -1, 0>>, 1>> }

\* Read-backs of degenerate correspondences.  All moving points coincide:
\* Sij[9] = 0 and S = 0.  All matched fixed points coincide as well: Sij[9] =
\* Sij[10] = 0.  Only the matched fixed points coincide: Sij[10] = 0.  The SVD
\* of S = 0 has U = V = I.
DegenerateReadbacks ==
    { [mf |-> <<1, 0, 0>>, mm |-> <<1, 0, 0>>, S9 |-> 0, S10 |-> 1, rot |-> I3],
      [mf |-> <<1, 0, 0>>, mm |-> <<1, 0, 0>>, S9 |-> 0, S10 |-> 0, rot |-> I3],
      [mf |-> <<1, 0, 0>>, mm |-> Zero3,       S9 |-> 1, S10 |-> 0, rot |-> I3] }

\* What the power method leaves in D_OUT_T_K on S = 0: the iterate N * x = 0
\* is normalized to not-a-numbers, and so is t_k; s_k is sqrt (Sij[9] / Sij[10])
DegeneratePowerOutputs ==
    { <<NaN4, NaN3, 0>>, <<NaN4, NaN3, NaN>> }

\* Estimates a caller loads with write (D_IO_T, ptr); <<>> is ptr = nullptr
Estimates == { <<>>, TIdentity, <<<<0, 0, 2, 0>>, <<1, 0, 0>>, 1>> }

\* Probe points for the composition of transforms
Probes == << <<1, 0, 0>>, <<0, 1, 0>>, <<0, 0, 1>>, <<1, 1, 1>> >>

---------------------------------------------------------------------------
\* Construction followed by init

\* ICPStep::init: identity transform on the host, in the staging area and on
\* the device
InitTransform(r, qq, tt, ss, host, device, src) ==
    /\ r = I3
    /\ qq = QuatFromMat(I3)
    /\ tt = Zero3
    /\ ss = 1
    /\ host = TIdentity
    /\ device = DeviceAfterWrite(TIdentity, TIdentity)
    /\ src = "init"

\* No kernel-class object is looked at on its own
ObjIdle ==
    /\ kind = "none"
    /\ wgMultiple = 1
    /\ obj = <<>>
    /\ status = "constructed"
    /\ message = <<>>
    /\ buffers = 0
    /\ commands = 0
    /\ kernels = <<>>

InitSession ==
    /\ cls \in {"ICP", "ICPStep"}
    /\ CR \in Variants
    /\ CW \in Weightings
    /\ staging \in Stagings
    /\ max_iterations \in (IF cls = "ICP" THEN 0..MaxIter ELSE {0})
    /\ angle_threshold \in (IF cls = "ICP" THEN AngleThresholds ELSE {0})
    /\ translation_threshold \in (IF cls = "ICP" THEN TranslationThresholds ELSE {0})
    /\ InitTransform(R, q, t, s, hPtrIOT, dBufferIOT, dIOTsrc)
    \* k and the incremental transform are indeterminate here; k is set by
    \* buildRBC and the incremental transform by a step before they are read
    /\ k = 0
    /\ Rk = I3 /\ qk = QIdentity /\ tk = Zero3 /\ sk = 1
    /\ built = FALSE
    /\ pc = "ready"
    /\ op = "init"
    /\ config = FALSE
    /\ profiling = FALSE
    /\ log = <<>>
    /\ steps = 0
    /\ total = 0
    /\ runSteps = 0
    /\ kAtRun = 0
    /\ allAbove = TRUE
    /\ allIdentity = TRUE
    /\ seqP = Probes
    /\ userT = <<>>

\* No estimation is looked at on its own
EstIdle ==
    /\ pairs = <<>>
    /\ est = <<>>

\* No command queue is looked at on its own
QueuesIdle ==
    /\ queueOf = <<>>
    /\ pending = <<>>
    /\ running = {}
    /\ finished = {}
    /\ early = {}
    /\ hostAt = "idle"

\* No application session exists
AppIdle ==
    /\ stepConfig = [v \in Variants |-> TRUE]
    /\ stepK = [v \in Variants |-> 0]
    /\ sessions = <<>>

\* No function is looked at on its own
\* No object is taken through repeated calls
MemIdle ==
    /\ conf = <<>>
    /\ mem = <<>>
    /\ trace = <<>>

FnIdle ==
    /\ input = <<>>
    /\ output = <<>>

Init == InitSession /\ ObjIdle /\ EstIdle /\ QueuesIdle /\ AppIdle /\ FnIdle /\ MemIdle

---------------------------------------------------------------------------
\* Helpers of the actions

Append1(stage) == log' = Append(log, stage)

\* sk = std::sqrt (Sij[9] / Sij[10])
ScaleOf(S9, S10) == FSqrt(FDiv(S9, S10))

\* tk = mf - sk * Rk * mm
TranslationOf(mf, mm, rot, scale) == VecSub(mf, VecScale(scale, MatVec(rot, mm)))

\* R = Rk * R
ComposeR(rk, r) == MatMul(rk, r)

\* Mutant of ComposeT: the incremental scale is left out
ComposeTNoScale(scale, rk, tr, trk) == VecAdd(MatVec(rk, tr), trk)

\* t = sk * Rk * t + tk
ComposeT(scale, rk, tr, trk) == VecAdd(VecScale(scale, MatVec(rk, tr)), trk)

\* s = sk * s
ComposeS(scale, sc) == FMul(scale, sc)

\* p -> s * R * p + t; float operations, which on operands that are all
\* numbers are the integer operations
Apply(sc, r, tr, p) ==
    IF IsFinite(sc) /\ FiniteMat(r) /\ FiniteVec(tr) /\ FiniteVec(p)
    THEN [i \in 1..3 |->
            sc * (r[i][1] * p[1] + r[i][2] * p[2] + r[i][3] * p[3]) + tr[i]]
    ELSE VecAdd(VecScale(sc, MatVec(r, p)), tr)

\* if (staging == Staging::I || staging == Staging::IO)
WriteEnabled == staging \in {"I", "IO"}

\* Mutant of KAfterBuild: buildRBC leaves k as it is
KAfterBuildKept(kk) == kk

\* ICP::buildRBC: k = 0
KAfterBuild(kk) == 0

\* ICP::check: k++
KAfterCheck(kk) == kk + 1

\* ICP::check: delta_angle < angle_threshold && delta_tanslation < translation_threshold
\* (tk.norm () < threshold compared on the squares)
Below(Q, tr) ==
    /\ FLt(AngleDeg(Q), angle_threshold)
    /\ translation_threshold > 0
    /\ FLt(SquaredNorm(tr), translation_threshold * translation_threshold)

\* Mutant of CheckContinues: the cap is compared with k before the increment
CheckContinuesLate(k1, Q, tr) ==
    IF k1 - 1 = max_iterations THEN FALSE
    ELSE IF Below(Q, tr) THEN FALSE
    ELSE TRUE

\* Mutant of CheckContinues: the threshold test is left out
CheckContinuesCapOnly(k1, Q, tr) ==
    IF k1 = max_iterations THEN FALSE ELSE TRUE

\* ICP::check: the value returned; k1 is k after the increment
CheckContinues(k1, Q, tr) ==
    IF k1 = max_iterations THEN FALSE
    ELSE IF Below(Q, tr) THEN FALSE
    ELSE TRUE

\* The incremental transform of a step on identical clouds: angle 0, t_k = 0
IsIdentityStep(Q, tr) == AngleDeg(Q) = 0 /\ tr = Zero3

\* The stage an ICPStep::run call starts with
FirstStage(prof, cfg) == IF prof /\ cfg THEN "fReps" ELSE "transform"

\* Mutant of AfterSearch: the weighting stage is skipped
AfterSearchNoWeights == "means"

\* The stage that follows the correspondence search
AfterSearch == IF CW = "WEIGHTED" THEN "weights" ELSE "means"

\* The stage that follows the covariance stage
AfterMatrixS == IF CR = "POWER_METHOD" THEN "powMethod" ELSE "rotation"

---------------------------------------------------------------------------
\* API calls made while the host is outside any call

\* ICPStep::init / ICP::init called again with the same arguments
ReInit ==
    /\ pc = "ready"
    /\ InitTransform(R', q', t', s', hPtrIOT', dBufferIOT', dIOTsrc')
    /\ built' = FALSE
    /\ op' = "init"
    /\ steps' = 0
    /\ total' = 0
    /\ seqP' = Probes
    /\ userT' = <<>>
    /\ UNCHANGED <<sideVars, cfgVars, k, Rk, qk, tk, sk, pc, config, profiling, log,
                   runSteps, kAtRun, allAbove, allIdentity>>

\* ICPStep::buildRBC (fReps.run, rbcC.run); ICP::buildRBC also resets k
BuildRBC ==
    /\ pc = "ready"
    /\ built' = TRUE
    /\ k' = IF cls = "ICP" THEN KAfterBuild(k) ELSE k
    /\ steps' = 0
    /\ op' = "buildRBC"
    /\ UNCHANGED <<sideVars, cfgVars, R, q, t, s, Rk, qk, tk, sk, hPtrIOT, dBufferIOT,
                   dIOTsrc, pc, config, profiling, log, total, runSteps,
                   kAtRun, allAbove, allIdentity, seqP, userT>>

\* ICPStep::write (ICPStep::Memory::D_IO_T, ptr, ...)
WriteIOT ==
    /\ pc = "ready"
    /\ \E ptr \in Estimates :
        IF WriteEnabled
        THEN /\ hPtrIOT' = (IF ptr # <<>> THEN ptr ELSE hPtrIOT)
             /\ dBufferIOT' = DeviceAfterWrite(hPtrIOT', dBufferIOT)
             /\ dIOTsrc' = "user"
             /\ userT' = hPtrIOT'
        ELSE UNCHANGED <<hPtrIOT, dBufferIOT, dIOTsrc, userT>>
    /\ op' = "write"
    /\ UNCHANGED <<sideVars, cfgVars, k, R, q, t, s, Rk, qk, tk, sk, built, pc, config,
                   profiling, log, steps, total, runSteps, kAtRun, allAbove,
                   allIdentity, seqP>>

\* A caller invokes ICPStep::run (events, event, config) or the profiling
\* overload ICPStep::run (timer, events, config)
StepCall ==
    /\ pc = "ready"
    /\ cls = "ICPStep"
    /\ total < MaxSteps
    /\ \E c \in BOOLEAN, p \in BOOLEAN :
        /\ config' = c
        /\ profiling' = p
        /\ pc' = FirstStage(p, c)
    /\ log' = <<>>
    /\ op' = "step"
    /\ UNCHANGED <<sideVars, cfgVars, k, R, q, t, s, Rk, qk, tk, sk, hPtrIOT, dBufferIOT,
                   dIOTsrc, built, steps, total, runSteps, kAtRun, allAbove,
                   allIdentity, seqP, userT>>

\* ICP::run is called (after buildRBC): ICPStep::run (nullptr, nullptr, true)
RunCall ==
    /\ pc = "ready"
    /\ cls = "ICP"
    /\ built
    /\ total < MaxSteps
    /\ config' = TRUE
    /\ profiling' = FALSE
    /\ pc' = FirstStage(FALSE, TRUE)
    /\ log' = <<>>
    /\ op' = "run"
    /\ runSteps' = 0
    /\ kAtRun' = k
    /\ allAbove' = TRUE
    /\ allIdentity' = TRUE
    /\ UNCHANGED <<sideVars, cfgVars, k, R, q, t, s, Rk, qk, tk, sk, hPtrIOT, dBufferIOT,
                   dIOTsrc, built, steps, total, seqP, userT>>

---------------------------------------------------------------------------
\* The stages of ICPStep::run

hostVars == <<R, q, t, s, Rk, qk, tk, sk, hPtrIOT, seqP>>
callVars == <<op, config, profiling, steps, total, runSteps, kAtRun, allAbove,
             allIdentity, userT>>

\* A stage that changes nothing the model tracks but the log and the position
Kernel(stage, next) ==
    /\ Append1(stage)
    /\ pc' = next
    /\ UNCHANGED <<sideVars, cfgVars, k, hostVars, dBufferIOT, dIOTsrc, built, callVars>>

\* profiling overload, config set: fReps.run (events)
StageReps ==
    /\ pc = "fReps"
    /\ Kernel("fReps", "rbcC")

\* profiling overload, config set: rbcC.run ()
StageRbcC ==
    /\ pc = "rbcC"
    /\ Append1("rbcC")
    /\ built' = TRUE
    /\ pc' = "transform"
    /\ UNCHANGED <<sideVars, cfgVars, k, hostVars, dBufferIOT, dIOTsrc, callVars>>

\* transform.run ()
StageTransform ==
    /\ pc = "transform"
    /\ total < MaxSteps
    /\ Kernel("transform", "rbcS")

\* rbcS.run (nullptr, nullptr, config)
StageSearch ==
    /\ pc = "rbcS"
    /\ Kernel("rbcS", AfterSearch)

\* weights.run ()
StageWeights ==
    /\ pc = "weights"
    /\ Kernel("weights", "means")

\* means.run ()
StageMeans ==
    /\ pc = "means"
    /\ Kernel("means", "devs")

\* devs.run ()
StageDevs ==
    /\ pc = "devs"
    /\ Kernel("devs", "matrixS")

\* matrixS.run ()
StageMatrixS ==
    /\ pc = "matrixS"
    /\ Kernel("matrixS", AfterMatrixS)

\* powMethod.run (): the kernel writes T_k, one of outs, to D_OUT_T_K, which
\* is dBufferIOT
PowMethod(outs) ==
    /\ \E Tk \in outs : dBufferIOT' = Tk
    /\ dIOTsrc' = "powMethod"
    /\ Append1("powMethod")
    /\ pc' = "rotation"
    /\ UNCHANGED <<sideVars, cfgVars, k, hostVars, built, callVars>>

StagePowMethod ==
    /\ pc = "powMethod"
    /\ PowMethod(PowerOutputs)

\* Host side of the rotation extraction.  Closed form: read back the
\* centroids and the covariance bundle (one of rbs), sk, SVD, Rk, qk, tk.
\* Power method: read back T_k and unpack it.
Rotation(rbs) ==
    /\ IF CR = "EIGEN"
       THEN \E rb \in rbs :
              /\ sk' = ScaleOf(rb.S9, rb.S10)
              /\ Rk' = rb.rot
              /\ qk' = QuatFromMat(Rk')
              /\ tk' = TranslationOf(rb.mf, rb.mm, Rk', sk')
       ELSE /\ qk' = dBufferIOT[1]
            /\ Rk' = MatFromQuat(qk')
            /\ tk' = dBufferIOT[2]
            /\ sk' = dBufferIOT[3]
    /\ allIdentity' = (allIdentity /\ IsIdentityStep(qk', tk'))
    /\ Append1("rotation")
    /\ pc' = "compose"
    /\ UNCHANGED <<sideVars, cfgVars, k, R, q, t, s, hPtrIOT, seqP, dBufferIOT, dIOTsrc,
                   built, op, config, profiling, steps, total, runSteps, kAtRun,
                   allAbove, userT>>

StageRotation ==
    /\ pc = "rotation"
    /\ Rotation(Readbacks)

\* The same two stages on correspondences that may be degenerate
StagePowMethodAny ==
    /\ pc = "powMethod"
    /\ PowMethod(PowerOutputs \cup DegeneratePowerOutputs)

StageRotationAny ==
    /\ pc = "rotation"
    /\ Rotation(Readbacks \cup DegenerateReadbacks)

\* R = Rk * R; q = Quaternionf (R); t = sk * Rk * t + tk; s = sk * s; the
\* staging area is filled with q, t, s
StageCompose ==
    /\ pc = "compose"
    /\ R' = ComposeR(Rk, R)
    /\ q' = QuatFromMat(R')
    /\ t' = ComposeT(sk, Rk, t, tk)
    /\ s' = ComposeS(sk, s)
    /\ hPtrIOT' = Pack(q', t', s')
    /\ seqP' = [i \in 1..Len(seqP) |-> Apply(sk, Rk, tk, seqP[i])]
    /\ Append1("compose")
    /\ pc' = "writeT"
    /\ UNCHANGED <<sideVars, cfgVars, k, Rk, qk, tk, sk, dBufferIOT, dIOTsrc, built, callVars>>

\* queue.enqueueWriteBuffer (dBufferIOT, ..., hPtrIOT, ...); ICPStep::run returns
StageWriteT ==
    /\ pc = "writeT"
    /\ dBufferIOT' = DeviceAfterWrite(hPtrIOT, dBufferIOT)
    /\ dIOTsrc' = "step"
    /\ Append1("writeT")
    /\ steps' = steps + 1
    /\ total' = total + 1
    /\ runSteps' = IF op = "run" THEN runSteps + 1 ELSE runSteps
    /\ pc' = IF op = "run" THEN "check" ELSE "ready"
    /\ UNCHANGED <<sideVars, cfgVars, k, hostVars, built, op, config, profiling, kAtRun,
                   allAbove, allIdentity, userT>>

---------------------------------------------------------------------------
\* ICP::run: while (check ()) ICPStep::run (); queue.finish ()

Check ==
    /\ pc = "check"
    /\ k' = KAfterCheck(k)
    /\ allAbove' = (allAbove /\ ~Below(qk, tk))
    /\ IF CheckContinues(k', qk, tk)
       THEN /\ pc' = FirstStage(FALSE, FALSE)
            /\ config' = FALSE
            /\ log' = <<>>
       ELSE /\ pc' = "ready"
            /\ UNCHANGED <<config, log>>
    /\ UNCHANGED <<sideVars, cfgVars, hostVars, dBufferIOT, dIOTsrc, built, op, profiling,
                   steps, total, runSteps, kAtRun, allIdentity, userT>>

---------------------------------------------------------------------------

Next ==
    \/ ReInit
    \/ BuildRBC
    \/ WriteIOT
    \/ StepCall
    \/ RunCall
    \/ StageReps
    \/ StageRbcC
    \/ StageTransform
    \/ StageSearch
    \/ StageWeights
    \/ StageMeans
    \/ StageDevs
    \/ StageMatrixS
    \/ StagePowMethod
    \/ StageRotation
    \/ StageCompose
    \/ StageWriteT
    \/ Check

Spec == Init /\ [][Next]_vars

\* Registrations (ICP::buildRBC, ICP::run) of a session without staging, on
\* correspondences that may be degenerate
InitNum == Init /\ cls = "ICP" /\ staging = "NONE" /\ CW = "REGULAR"

NextNum ==
    \/ BuildRBC
    \/ RunCall
    \/ StageTransform
    \/ StageSearch
    \/ StageMeans
    \/ StageDevs
    \/ StageMatrixS
    \/ StagePowMethodAny
    \/ StageRotationAny
    \/ StageCompose
    \/ StageWriteT
    \/ Check

SpecNum == InitNum /\ [][NextNum]_vars

---------------------------------------------------------------------------
\* A kernel-class object on its own: constructor, init, run

sessionVars == <<cfgVars, k, hostVars, dBufferIOT, dIOTsrc, built, pc, callVars, log>>

WgMultiples == {1, 2}
ObjStagings == {"NONE", "IO"}

\* std::ceil (n / (float) per)
CeilDiv(n, per) == (n + per - 1) \div per

\* Work-groups per row with the rounding applied to a single work-group too
WgXdimOfAlwaysRounded(n, per) ==
    LET w == CeilDiv(n, per)
    IN  IF w % 4 # 0 THEN w + 4 - (w % 4) ELSE w

\* wgXdim: work-groups per row, rounded up to a multiple of 4 unless it is 1
WgXdimOf(n, per) ==
    LET w == CeilDiv(n, per)
    IN  IF w # 1 /\ w % 4 # 0 THEN w + 4 - (w % 4) ELSE w

\* The try block without the test of the alignment
ColsErrorNoAlignment(cols, wg) ==
    IF WgXdimOf(cols, 8 * wg) = 0 THEN "The array cannot have zero columns"
    ELSE IF cols > (8 * wg) * (8 * wg) THEN "supports arrays of up to"
    ELSE ""

\* The try block of Reduce::init and Scan::init: what is thrown, or ""
ColsError(cols, wg) ==
    IF WgXdimOf(cols, 8 * wg) = 0 THEN "The array cannot have zero columns"
    ELSE IF cols % 4 # 0 THEN "The number of columns in the array must be a multiple of 4"
    ELSE IF cols > (8 * wg) * (8 * wg) THEN "supports arrays of up to"
    ELSE ""

\* What the catch block can write: the size-limit text is read through a
\* pointer into a string that is destroyed by the throw, so its content is
\* indeterminate; the prefix names the class
Printed(class, error) ==
    IF error = "supports arrays of up to"
    THEN { <<class, error>>, <<class, "indeterminate">> }
    ELSE { <<class, error>> }

\* Host buffers created, and map and unmap commands enqueued, by the staging switch
StagingBuffers(st) == IF st = "IO" THEN 2 ELSE 0
StagingCommands(st) == IF st = "IO" THEN 4 ELSE 0

\* Device buffers created by init
DeviceBuffers(class, wgX) ==
    IF class = "Reduce" THEN (IF wgX # 1 THEN 3 ELSE 2)
    ELSE IF class = "Scan" THEN 3
    ELSE 2

\* The column counts tried: the small ones, those around one work-group
\* (8 * wg) and those around the size limit ((8 * wg)^2)
ColsInputs(wg) ==
    (0..MaxCols) \cup { 8 * wg + d : d \in 0..4 }
                 \cup { 64 * wg * wg + d - 4 : d \in 0..8 }

\* One enqueueNDRangeKernel: the kernel, whether the caller's wait-list was
\* passed, and whether the caller's event was attached
Launch(kernel, waits, ev) == [kernel |-> kernel, events |-> waits, event |-> ev]

InitObj ==
    /\ InitSession
    /\ cls = "ICPStep"
    /\ kind \in {"Reduce", "Scan", "ICPReps", "ICPStep"}
    /\ kind # "ICPStep" => (CR = "EIGEN" /\ CW = "REGULAR" /\ staging = "NONE")
    /\ wgMultiple \in WgMultiples
    /\ obj = <<>>
    /\ status = "constructed"
    /\ message = <<>>
    /\ buffers = 0
    /\ commands = 0
    /\ kernels = <<>>
    /\ EstIdle /\ QueuesIdle /\ AppIdle /\ FnIdle /\ MemIdle

\* Reduce::init and Scan::init
ReduceInit ==
    /\ kind \in {"Reduce", "Scan"} /\ status = "constructed"
    /\ \E cols \in ColsInputs(wgMultiple), rows \in 1..2, st \in ObjStagings :
        LET wgXdim == WgXdimOf(cols, 8 * wgMultiple)
            error == ColsError(cols, wgMultiple)
        IN  /\ obj' = [cols |-> cols, rows |-> rows, wgXdim |-> wgXdim, staging |-> st]
            /\ IF error # ""
               THEN /\ message' \in Printed(kind, error)
                    /\ status' = "exited"
                    /\ UNCHANGED <<buffers, commands>>
               ELSE /\ status' = "initialised"
                    /\ buffers' = StagingBuffers(st) + DeviceBuffers(kind, wgXdim)
                    /\ commands' = StagingCommands(st)
                    /\ UNCHANGED message
    /\ UNCHANGED <<sessionVars, estVars, queueVars, appVars, fnVars, memVars, kind, wgMultiple, kernels>>

\* Reduce::run
ReduceRun ==
    /\ kind = "Reduce" /\ status = "initialised" /\ kernels = <<>>
    /\ kernels' = IF obj.wgXdim = 1
                  THEN << Launch("recKernel", TRUE, TRUE) >>
                  ELSE << Launch("recKernel", TRUE, FALSE),
                          Launch("groupRecKernel", FALSE, TRUE) >>
    /\ UNCHANGED <<sessionVars, estVars, queueVars, appVars, fnVars, memVars, kind, wgMultiple, obj, status, message, buffers, commands>>

\* Scan::run
ScanRun ==
    /\ kind = "Scan" /\ status = "initialised" /\ kernels = <<>>
    /\ kernels' = IF obj.wgXdim = 1
                  THEN << Launch("kernelScan", TRUE, TRUE) >>
                  ELSE << Launch("kernelScan", TRUE, FALSE),
                          Launch("kernelSumsScan", FALSE, FALSE),
                          Launch("kernelAddSums", FALSE, TRUE) >>
    /\ UNCHANGED <<sessionVars, estVars, queueVars, appVars, fnVars, memVars, kind, wgMultiple, obj, status, message, buffers, commands>>

\* int p = std::log2 (nr)
Log2Floor(n) == CHOOSE p \in 0..n : 2^p <= n /\ n < 2^(p + 1)

\* The try block of ICPReps::init
RepsError(nr) ==
    IF nr = 0 THEN "The number of representatives cannot be zero"
    ELSE IF nr % 4 # 0 THEN "The number of representatives has to be a multiple of 4"
    ELSE ""

\* nrx of ICPReps::init
RepsX(nr) == LET p == Log2Floor(nr) IN 2^(p - p \div 2)

\* nry of ICPReps::init
RepsY(nr) == LET p == Log2Floor(nr) IN 2^(p \div 2)

\* ICPReps::init
RepsInit ==
    /\ kind = "ICPReps" /\ status = "constructed"
    /\ \E nr \in 0..MaxNr, st \in ObjStagings :
        LET error == RepsError(nr)
        IN  IF error # ""
            THEN /\ obj' = [nr |-> nr, staging |-> st]
                 /\ message' \in Printed(kind, error)
                 /\ status' = "exited"
                 /\ UNCHANGED <<buffers, commands>>
            ELSE /\ obj' = [nr |-> nr, staging |-> st, nrx |-> RepsX(nr), nry |-> RepsY(nr)]
                 /\ status' = "initialised"
                 /\ buffers' = StagingBuffers(st) + DeviceBuffers(kind, 1)
                 /\ commands' = StagingCommands(st)
                 /\ UNCHANGED message
    /\ UNCHANGED <<sessionVars, estVars, queueVars, appVars, fnVars, memVars, kind, wgMultiple, kernels>>

\* ICPReps::run: one kernel over the grid global = (nrx, nry)
RepsRun ==
    /\ kind = "ICPReps" /\ status = "initialised" /\ kernels = <<>>
    /\ kernels' = << [kernel |-> "kernel", events |-> TRUE, event |-> TRUE,
                      global |-> <<obj.nrx, obj.nry>>] >>
    /\ UNCHANGED <<sessionVars, estVars, queueVars, appVars, fnVars, memVars, kind, wgMultiple, obj, status, message, buffers, commands>>

\* The try block of ICPWeights::init
WeightsError(n, wg) ==
    IF WgXdimOf(n, 2 * wg) = 0 THEN "The array cannot have zero elements"
    ELSE IF n % 2 # 0 THEN "The number of elements in the array must be a multiple of 2"
    ELSE IF n > 16 * wg * wg THEN "supports arrays of up to"
    ELSE ""

\* The try block of ICPMean::init
MeanError(n, wg) ==
    IF CeilDiv(n, 2 * wg) = 0 THEN "The array cannot have zero points"
    ELSE IF n % 2 # 0 THEN "The number of points in the array must be a multiple of 2"
    ELSE IF n > (2 * wg) * (2 * wg) THEN "supports arrays of up to"
    ELSE ""

\* The try block of ICPStep::init
StepError(m, nr, a) ==
    IF m = 0 THEN "The sets of landmarks cannot have zero points"
    ELSE IF nr = 0 THEN "The sets of representatives cannot have zero points"
    ELSE IF a = 0 THEN "The alpha parameter cannot be equal to zero"
    ELSE ""

\* The init calls ICPStep::init makes on its stages, in order, each with the
\* error its try block throws for this configuration. The two RBC stages
\* belong to another library and are taken to accept. ICPS::init hands
\* ceil (m / 4) columns to its Reduce.
StageInits(m, nr, wg) ==
    << <<"ICPReps", RepsError(nr)>>,
       <<"ICPTransform", IF m = 0 THEN "The set cannot have zero points" ELSE "">> >>
    \o (IF CW = "WEIGHTED" THEN << <<"ICPWeights", WeightsError(m, wg)>> >> ELSE << >>)
    \o << <<"ICPMean", MeanError(m, wg)>>,
          <<"ICPDevs", IF m = 0 THEN "The array cannot have zero points" ELSE "">>,
          <<"ICPS", IF m = 0 THEN "The array cannot have zero points" ELSE "">>,
          <<"Reduce", ColsError(CeilDiv(m, 4), wg)>> >>

\* The first stage whose init throws, or 0
FirstFailing(inits) ==
    IF \E i \in 1..Len(inits) : inits[i][2] # ""
    THEN CHOOSE i \in 1..Len(inits) :
            inits[i][2] # "" /\ \A j \in 1..(i - 1) : inits[j][2] = ""
    ELSE 0

\* Host and device buffers ICPStep::init creates itself
StepBuffers(st) == (IF st \in {"I", "IO"} THEN 2 ELSE 0) + 1 + 3

\* Map, unmap and write commands ICPStep::init enqueues itself
StepCommands(st) == (IF st \in {"I", "IO"} THEN 4 ELSE 0) + 2 + 1

\* ICPStep::init
StepInit ==
    /\ kind = "ICPStep" /\ status = "constructed"
    /\ \E m \in 0..MaxM, nr \in 0..MaxNr, a \in {0, 1}, c \in {0, 1} :
        LET error == StepError(m, nr, a)
            inits == StageInits(m, nr, wgMultiple)
            f == FirstFailing(inits)
        IN  /\ obj' = [m |-> m, nr |-> nr, a |-> a, c |-> c]
            /\ IF error # ""
               THEN /\ message' \in Printed(kind, error)
                    /\ status' = "exited"
                    /\ UNCHANGED <<buffers, commands>>
               ELSE /\ buffers' = StepBuffers(staging)
                    /\ commands' = StepCommands(staging)
                    /\ IF f # 0
                       THEN /\ message' \in Printed(inits[f][1], inits[f][2])
                            /\ status' = "exited"
                       ELSE /\ status' = "initialised"
                            /\ UNCHANGED message
    /\ UNCHANGED <<sessionVars, estVars, queueVars, appVars, fnVars, memVars, kind, wgMultiple, kernels>>

\* ICPStep::buildRBC
StepBuildRBC ==
    /\ kind = "ICPStep" /\ status = "initialised" /\ kernels = <<>>
    /\ kernels' = <<"fReps", "rbcC">>
    /\ UNCHANGED <<sessionVars, estVars, queueVars, appVars, fnVars, memVars, kind, wgMultiple, obj, status, message, buffers, commands>>

\* The kernels of one ICPStep::run
StepKernels ==
    <<"transform", "rbcS">>
    \o (IF CW = "WEIGHTED" THEN <<"weights">> ELSE << >>)
    \o <<"means", "devs", "matrixS">>
    \o (IF CR = "POWER_METHOD" THEN <<"powMethod">> ELSE << >>)

\* ICPStep::run, its device part
StepRun ==
    /\ kind = "ICPStep" /\ status = "initialised" /\ Len(kernels) <= 2
    /\ kernels' = kernels \o StepKernels
    /\ UNCHANGED <<sessionVars, estVars, queueVars, appVars, fnVars, memVars, kind, wgMultiple, obj, status, message, buffers, commands>>

NextObj ==
    \/ ReduceInit
    \/ ReduceRun
    \/ ScanRun
    \/ RepsInit
    \/ RepsRun
    \/ StepInit
    \/ StepBuildRBC
    \/ StepRun

SpecInit == InitObj /\ [][NextObj]_vars

---------------------------------------------------------------------------
\* One estimation from matched pairs: centroids, deviations, covariance
\* bundle, then the incremental transform by either strategy

\* The session is not looked at: one fixed configuration
SessionFixed ==
    /\ InitSession
    /\ cls = "ICPStep" /\ CR = "EIGEN" /\ CW = "REGULAR" /\ staging = "NONE"

Rotations == {I3, Rz180, R120}
Translations == {Zero3, <<8, 0, -16>>}
\* s* as <<numerator, denominator>>
Scales == { <<1, 1>>, <<1, 2>>, <<1, 3>> }
\* Four moving points around their centroid, and the centroids tried
MovingShape == << <<48, 0, 0>>, <<0, 48, 0>>, <<0, 0, 48>>, <<-48, -48, -48>> >>
MovingCentroids == {Zero3, <<48, 96, 0>>}
WeightVectors == { <<1, 1, 1, 1>>, <<1, 3, 1, 3>> }
ScalingFactors == {1, 2}

\* fixed = s* * R* * moving + t*
Related(truth, p) ==
    LET rp == MatVec(truth.R, p)
    IN  [i \in 1..3 |-> (rp[i] * truth.s[1]) \div truth.s[2] + truth.t[i]]

RECURSIVE SumTo(_, _)
\* f[1] + ... + f[n], accumulated in the order of the loops
SumTo(f, n) == IF n = 0 THEN 0 ELSE SumTo(f, n - 1) + f[n]

\* cpuICPMean: mean[k] += F[j * 8 + k] / n, the same for M
cpuICPMean(F, M, n) ==
    [f |-> [i \in 1..3 |-> SumTo([j \in 1..n |-> F[j][i] \div n], n)],
     m |-> [i \in 1..3 |-> SumTo([j \in 1..n |-> M[j][i] \div n], n)]]

\* The weighted centroid with the weights left as they are
cpuICPMeanWeightedUnnormalized(F, M, W, n) ==
    [f |-> [i \in 1..3 |-> SumTo([j \in 1..n |-> W[j] * F[j][i]], n)],
     m |-> [i \in 1..3 |-> SumTo([j \in 1..n |-> W[j] * M[j][i]], n)]]

\* cpuICPMeanWeighted: w = W[j] / sum_w; MEAN[k] += w * F[j * 8 + k]
cpuICPMeanWeighted(F, M, W, n) ==
    LET sum_w == SumTo(W, n)
    IN  [f |-> [i \in 1..3 |-> SumTo([j \in 1..n |-> (W[j] * F[j][i]) \div sum_w], n)],
         m |-> [i \in 1..3 |-> SumTo([j \in 1..n |-> (W[j] * M[j][i]) \div sum_w], n)]]

\* cpuICPDevs
cpuICPDevs(F, M, mean, n) ==
    [DF |-> [j \in 1..n |-> [i \in 1..3 |-> F[j][i] - mean.f[i]]],
     DM |-> [j \in 1..n |-> [i \in 1..3 |-> M[j][i] - mean.m[i]]]]

\* One summand of the covariance bundle: S[0] .. S[8] row-major with the
\* moving deviation first, S[9] of the moving and S[10] of the fixed deviation
BundleTerm(idx, mp, fp) ==
    IF idx <= 9 THEN mp[((idx - 1) \div 3) + 1] * fp[((idx - 1) % 3) + 1]
    ELSE IF idx = 10 THEN mp[1] * mp[1] + mp[2] * mp[2] + mp[3] * mp[3]
    ELSE fp[1] * fp[1] + fp[2] * fp[2] + fp[3] * fp[3]

\* cpuICPS
cpuICPS(DM, DF, m, c) ==
    [idx \in 1..11 |->
        SumTo([i \in 1..m |->
                 BundleTerm(idx, [a \in 1..3 |-> c * DM[i][a]],
                                 [a \in 1..3 |-> c * DF[i][a]])], m)]

\* cpuICPSw
cpuICPSw(M, F, W, m, c) ==
    [idx \in 1..11 |->
        SumTo([i \in 1..m |->
                 W[i] * BundleTerm(idx, [a \in 1..3 |-> c * M[i][a]],
                                        [a \in 1..3 |-> c * F[i][a]])], m)]

\* Eigen::Map<Matrix3f, Unaligned, Stride<1, 3>> (Sij): S (r, c) = Sij[3 r + c]
SMatrix(Sij) == [r \in 1..3 |-> [c \in 1..3 |-> Sij[3 * (r - 1) + c]]]

Trace(m) == m[1][1] + m[2][2] + m[3][3]

\* V * U^T of the SVD S = U * diag * V^T, made proper: the rotation R that
\* maximizes trace (R * S), here among the rotations of the model
SvdRotation(S) ==
    CHOOSE r \in Rotations :
        \A o \in Rotations : Trace(MatMul(o, S)) <= Trace(MatMul(r, S))

\* The matrix N of cpuICPPowerMethod, for quaternions (x, y, z, w)
HornN(Sij) ==
    LET Sxx == Sij[1]  Sxy == Sij[2]  Sxz == Sij[3]
        Syx == Sij[4]  Syy == Sij[5]  Syz == Sij[6]
        Szx == Sij[7]  Szy == Sij[8]  Szz == Sij[9]
    IN  << << Sxx - Syy - Szz, Sxy + Syx, Szx + Sxz, Syz - Szy >>,
           << Sxy + Syx, Syy - Sxx - Szz, Syz + Szy, Szx - Sxz >>,
           << Szx + Sxz, Syz + Szy, Szz - Sxx - Syy, Sxy - Syx >>,
           << Syz - Szy, Szx - Sxz, Sxy - Syx, Sxx + Syy + Szz >> >>

\* x^T * N * x
Rayleigh(N, x) ==
    SumTo([i \in 1..4 |-> x[i] * SumTo([j \in 1..4 |-> N[i][j] * x[j]], 4)], 4)

\* What the power iteration from (1, 1, 1, 1), with its shift on a negative
\* eigenvalue, converges to: the eigenvector of the largest eigenvalue of N,
\* here among the quaternions of the rotations of the model
DominantQuat(N) ==
    CHOOSE Q \in { QuatFromMat(r) : r \in Rotations } :
        \A P \in { QuatFromMat(r) : r \in Rotations } : Rayleigh(N, P) <= Rayleigh(N, Q)

EstBlank ==
    [stage |-> "start", mean |-> <<>>, meanW |-> <<>>, devs |-> <<>>, devsW |-> <<>>,
     S |-> <<>>, Sw |-> <<>>, eigen |-> <<>>, power |-> <<>>]

InitEst ==
    /\ SessionFixed /\ ObjIdle /\ QueuesIdle /\ AppIdle /\ FnIdle /\ MemIdle
    /\ \E r \in Rotations, tr \in Translations, sc \in Scales, o \in MovingCentroids,
          W \in WeightVectors, c \in ScalingFactors :
        LET truth == [R |-> r, t |-> tr, s |-> sc]
            M == [j \in 1..4 |-> [i \in 1..3 |-> MovingShape[j][i] + o[i]]]
        IN  pairs = [F |-> [j \in 1..4 |-> Related(truth, M[j])], M |-> M,
                     W |-> W, c |-> c, n |-> 4, truth |-> truth]
    /\ est = EstBlank

estFrame == <<sessionVars, objVars, queueVars, appVars, fnVars, memVars, pairs>>

\* The centroid stage, regular and weighted
EstMeans ==
    /\ est # <<>> /\ est.stage = "start"
    /\ est' = [est EXCEPT !.stage = "means",
                          !.mean = cpuICPMean(pairs.F, pairs.M, pairs.n),
                          !.meanW = cpuICPMeanWeighted(pairs.F, pairs.M, pairs.W, pairs.n)]
    /\ UNCHANGED estFrame

\* The deviations stage, from either centroid
EstDevs ==
    /\ est # <<>> /\ est.stage = "means"
    /\ est' = [est EXCEPT !.stage = "devs",
                          !.devs = cpuICPDevs(pairs.F, pairs.M, est.mean, pairs.n),
                          !.devsW = cpuICPDevs(pairs.F, pairs.M, est.meanW, pairs.n)]
    /\ UNCHANGED estFrame

\* The covariance stage, regular and weighted
EstMatrixS ==
    /\ est # <<>> /\ est.stage = "devs"
    /\ est' = [est EXCEPT !.stage = "matrixS",
                          !.S = cpuICPS(est.devs.DM, est.devs.DF, pairs.n, pairs.c),
                          !.Sw = cpuICPSw(est.devsW.DM, est.devsW.DF, pairs.W, pairs.n, pairs.c)]
    /\ UNCHANGED estFrame

\* The closed form on the regular bundle: host part of ICPStep<EIGEN>::run
EstEigen ==
    /\ est # <<>> /\ est.stage = "matrixS" /\ est.eigen = <<>>
    /\ LET scale == ScaleOf(est.S[10], est.S[11])
           rot == SvdRotation(SMatrix(est.S))
       IN  est' = [est EXCEPT !.eigen =
                     [sk |-> scale, Rk |-> rot, qk |-> QuatFromMat(rot),
                      tk |-> TranslationOf(est.mean.f, est.mean.m, rot, scale)]]
    /\ UNCHANGED estFrame

\* The power method on the regular bundle: cpuICPPowerMethod, and the host
\* part of ICPStep<POWER_METHOD>::run that unpacks T_k
EstPowerMethod ==
    /\ est # <<>> /\ est.stage = "matrixS" /\ est.power = <<>>
    /\ LET scale == ScaleOf(est.S[10], est.S[11])
           quat == DominantQuat(HornN(est.S))
       IN  est' = [est EXCEPT !.power =
                     [sk |-> scale, qk |-> quat, Rk |-> MatFromQuat(quat),
                      tk |-> TranslationOf(est.mean.f, est.mean.m, MatFromQuat(quat), scale)]]
    /\ UNCHANGED estFrame

NextEst ==
    \/ EstMeans
    \/ EstDevs
    \/ EstMatrixS
    \/ EstEigen
    \/ EstPowerMethod

SpecEst == InitEst /\ [][NextEst]_vars

---------------------------------------------------------------------------
\* The commands of buildRBC and run on the command queues of one session

\* Indices of the queues of the environment
QueueIds == {0, 1}

\* The RBC stages were constructed with infoRBC, the others with infoICP
QueueFor(stage) ==
    IF stage \in {"rbcC", "rbcS"} THEN queueOf.rbc ELSE queueOf.icp

\* The stages whose output buffers are the input buffers of a stage, as
\* ICPStep::init wires them
Producers(stage) ==
    IF stage = "rbcC" THEN {"fReps"}
    ELSE IF stage = "rbcS" THEN {"transform", "fReps", "rbcC"}
    ELSE IF stage = "weights" THEN {"rbcS"}
    ELSE IF stage = "means" THEN {"rbcS"} \cup (IF CW = "WEIGHTED" THEN {"weights"} ELSE {})
    ELSE IF stage = "devs" THEN {"rbcS", "means"}
    ELSE IF stage = "matrixS" THEN {"devs"} \cup (IF CW = "WEIGHTED" THEN {"weights"} ELSE {})
    ELSE IF stage = "powMethod" THEN {"matrixS", "means"}
    ELSE {}

\* One run call on a queue: the stage and the events it waits for
Command(stage, waits) == [stage |-> stage, waits |-> waits]

RECURSIVE EnqueueAll(_, _)
\* The queues after the commands cmds have been enqueued in order
EnqueueAll(queues, cmds) ==
    IF cmds = <<>> THEN queues
    ELSE LET qid == QueueFor(Head(cmds).stage)
         IN  EnqueueAll([queues EXCEPT ![qid] = Append(@, Head(cmds))], Tail(cmds))

InitQueues ==
    /\ InitSession /\ cls = "ICPStep" /\ staging = "NONE"
    /\ ObjIdle /\ EstIdle /\ AppIdle /\ FnIdle /\ MemIdle
    /\ queueOf \in [rbc : QueueIds, icp : QueueIds]
    /\ pending = [qid \in QueueIds |-> <<>>]
    /\ running = {}
    /\ finished = {}
    /\ early = {}
    /\ hostAt = "initialised"

queueFrame == <<sessionVars, objVars, estVars, appVars, fnVars, memVars, queueOf>>

\* ICPStep::buildRBC (nullptr, nullptr): fReps.run (events), rbcC.run (nullptr, event)
HostBuildRBC ==
    /\ hostAt = "initialised"
    /\ pending' = EnqueueAll(pending, << Command("fReps", {}), Command("rbcC", {}) >>)
    /\ hostAt' = "built"
    /\ UNCHANGED <<queueFrame, running, finished, early>>

\* The event of a command the caller enqueued elsewhere, for instance the
\* upload of the moving cloud, which run is asked to wait for
UserEvents == {"user"}

\* ICPStep::run (events, nullptr, true), its run calls: every stage is
\* enqueued without a wait-list, events is passed to none of them
HostRun ==
    /\ hostAt = "built"
    /\ LET events == UserEvents
       IN  pending' = EnqueueAll(pending, [i \in 1..Len(StepKernels) |-> Command(StepKernels[i], {})])
    /\ hostAt' = "reading"
    /\ UNCHANGED <<queueFrame, running, finished, early>>

\* The blocking read that ends the device part of run returns once the
\* queue of the ICP stages has drained
HostRead ==
    /\ hostAt = "reading"
    /\ pending[queueOf.icp] = <<>>
    /\ \A st \in running : QueueFor(st) # queueOf.icp
    /\ hostAt' = "returned"
    /\ UNCHANGED <<queueFrame, pending, running, finished, early>>

\* An in-order queue starts its next command when its previous command has
\* completed and the events of the wait-list are complete
DeviceStart ==
    /\ \E qid \in QueueIds :
        /\ pending[qid] # <<>>
        /\ \A st \in running : QueueFor(st) # qid
        /\ Head(pending[qid]).waits \subseteq finished
        /\ LET st == Head(pending[qid]).stage
           IN  /\ running' = running \cup {st}
               /\ early' = early \cup { <<st, p>> : p \in Producers(st) \ finished }
        /\ pending' = [pending EXCEPT ![qid] = Tail(@)]
    /\ UNCHANGED <<queueFrame, finished, hostAt>>

\* A command completes
DeviceFinish ==
    /\ \E st \in running :
        /\ running' = running \ {st}
        /\ finished' = finished \cup {st}
    /\ UNCHANGED <<queueFrame, pending, early, hostAt>>

\* The command of the caller completes
UserEventCompletes ==
    /\ ~(UserEvents \subseteq finished)
    /\ finished' = finished \cup UserEvents
    /\ UNCHANGED <<queueFrame, pending, running, early, hostAt>>

NextQueues ==
    \/ UserEventCompletes
    \/ HostBuildRBC
    \/ HostRun
    \/ HostRead
    \/ DeviceStart
    \/ DeviceFinish

SpecQueues == InitQueues /\ [][NextQueues]_vars

---------------------------------------------------------------------------
\* Two sessions of the applications in one process

SessionIds == {1, 2}

\* Times the clouds of one session are loaded
MaxLoads == 2

InitApps ==
    /\ SessionFixed /\ ObjIdle /\ EstIdle /\ QueuesIdle /\ FnIdle /\ MemIdle
    /\ stepConfig = [v \in Variants |-> TRUE]
    /\ stepK = [v \in Variants |-> 0]
    /\ sessions \in [SessionIds -> [app : {"ICPSBS", "ICPReg"}, RC : Variants,
                                     configs : {<<>>}, printed : {<<>>},
                                     fixed : {0}, index : {0}, searched : {<<>>}]]

appFrame == <<sessionVars, objVars, estVars, queueVars, fnVars, memVars>>

\* ICPSBS::init, ICPReg::init on session i: the two clouds are written and the
\* landmarks of both are extracted into D_IN_F and D_IN_M; no index is built
LoadClouds(i) ==
    /\ sessions[i].fixed < MaxLoads
    /\ sessions' = [sessions EXCEPT ![i].fixed = @ + 1]
    /\ UNCHANGED <<appFrame, stepConfig, stepK>>

\* ICPSBS::step on session i: icpStep.run (nullptr, nullptr, config) with
\* the function's static config, then config = false; prints k++. The run
\* searches the index as it is: it calls neither fReps.run nor rbcC.run
SbsStep(i) ==
    /\ sessions[i].app = "ICPSBS" /\ Len(sessions[i].configs) < MaxCalls
    /\ LET v == sessions[i].RC
       IN  /\ sessions' = [sessions EXCEPT ![i].configs = Append(@, stepConfig[v]),
                                           ![i].printed = Append(@, stepK[v]),
                                           ![i].searched = Append(@, <<sessions[i].index, sessions[i].fixed>>)]
           /\ stepConfig' = [stepConfig EXCEPT ![v] = FALSE]
           /\ stepK' = [stepK EXCEPT ![v] = @ + 1]
    /\ UNCHANGED appFrame

\* ICPReg::registerPC on session i: reg.buildRBC (), then reg.run (), whose
\* first step passes config = true; what it prints are fields of reg
RegisterPC(i) ==
    /\ sessions[i].app = "ICPReg" /\ Len(sessions[i].configs) < MaxCalls
    /\ sessions' = [sessions EXCEPT ![i].configs = Append(@, TRUE),
                                    ![i].index = sessions[i].fixed,
                                    ![i].searched = Append(@, <<sessions[i].fixed, sessions[i].fixed>>)]
    /\ UNCHANGED <<appFrame, stepConfig, stepK>>

AppStep ==
    \E i \in SessionIds : SbsStep(i)

AppRegister ==
    \E i \in SessionIds : RegisterPC(i)

AppLoad ==
    \E i \in SessionIds : LoadClouds(i)

NextApps ==
    \/ AppLoad
    \/ AppStep
    \/ AppRegister

SpecApps == InitApps /\ [][NextApps]_vars

---------------------------------------------------------------------------
\* Functions of the library applied to one input

fnFrame == <<sessionVars, objVars, estVars, queueVars, appVars, memVars, input>>

\* a x b of cross_product
Cross(a, b) ==
    << a[2] * b[3] - a[3] * b[2], a[3] * b[1] - a[1] * b[3], a[1] * b[2] - a[2] * b[1] >>

\* One point through cpuICPTransformQ.  D = <<Q, t, s>> with the quaternion
\* components doubled: q = Q / 2, so q2 = Q and qcp = (Q x p + Q[4] * p) / 2
TransformQPoint(P, D) ==
    LET Q == D[1]  tr == D[2]  sc == D[3]
        p == <<P[1], P[2], P[3]>>
        qcp2 == [i \in 1..3 |-> Cross(Q, p)[i] + Q[4] * p[i]]
        q2cqcp == [i \in 1..3 |-> Cross(Q, qcp2)[i] \div 2]
    IN  [i \in 1..8 |-> IF i <= 3 THEN sc * (p[i] + q2cqcp[i]) + tr[i] ELSE P[i]]

\* cpuICPTransformQ
cpuICPTransformQ(M, D) == [i \in 1..Len(M) |-> TransformQPoint(M[i], D)]

\* The matrix applicator with the inner products over three components
cpuICPTransformMThree(M, D) ==
    [i \in 1..Len(M) |->
        [j \in 1..8 |->
            IF j <= 3 THEN SumTo([c \in 1..3 |-> D[j][c] * M[i][c]], 3) ELSE M[i][j]]]

\* cpuICPTransformM: rows 1 to 3 of the 4x4 matrix D times the first four
\* components of the point
cpuICPTransformM(M, D) ==
    [i \in 1..Len(M) |->
        [j \in 1..8 |->
            IF j <= 3 THEN SumTo([c \in 1..4 |-> D[j][c] * M[i][c]], 4) ELSE M[i][j]]]

\* The 4x4 matrix of the similarity transform <<Q, t, s>>
Homogeneous(D) ==
    LET rot == MatFromQuat(D[1]) IN
    [r \in 1..4 |->
        IF r = 4 THEN <<0, 0, 0, 1>>
        ELSE <<D[3] * rot[r][1], D[3] * rot[r][2], D[3] * rot[r][3], D[2][r]>>]

\* 8-D points: x, y, z, the fourth geometric component, four more components
Points8 ==
    { <<c[1], c[2], c[3], w, 7, 8, 9, 10>> :
        c \in { <<1, 0, 0>>, <<1, 2, 3>>, <<-2, 0, 5>> }, w \in {0, 1} }

Transforms ==
    { Pack(QuatFromMat(r), tr, sc) : r \in Rotations, tr \in Translations, sc \in {1, 2} }

InitTransforms ==
    \E a \in Points8, b \in Points8, D \in Transforms :
        /\ input = [fn |-> "transform", M |-> <<a, b>>, T |-> D]
        /\ output = [Q |-> <<>>, M |-> <<>>]

\* ICPTransform<QUATERNION>
TransformQuaternion ==
    /\ input.fn = "transform" /\ output.Q = <<>>
    /\ output' = [output EXCEPT !.Q = cpuICPTransformQ(input.M, input.T)]
    /\ UNCHANGED fnFrame

\* ICPTransform<MATRIX>, given the matrix of the same transform
TransformMatrix ==
    /\ input.fn = "transform" /\ output.M = <<>>
    /\ output' = [output EXCEPT !.M = cpuICPTransformM(input.M, Homogeneous(input.T))]
    /\ UNCHANGED fnFrame

\* Reduction of rows: the device path of Reduce and the reference cpuReduce

ReduceOps == {"min", "max", "sum"}

\* The comparison the tests pass as func: a < b for min, a > b for max
Better(func, a, b) == IF func = "min" THEN a < b ELSE a > b

RECURSIVE ScanRow(_, _, _, _)
\* The loop of cpuReduce from column c on, with rec the element kept so far
ScanRow(func, row, c, rec) ==
    IF c > Len(row) THEN rec
    ELSE ScanRow(func, row, c + 1, IF Better(func, row[c], rec) THEN row[c] ELSE rec)

\* cpuReduce and cpuReduceSum on one row
cpuReduce(func, row) ==
    IF func = "sum" THEN SumTo(row, Len(row)) ELSE ScanRow(func, row, 2, row[1])

\* The identity of the operation, held by a work-item that has no element
Neutral(func) == IF func = "min" THEN PInf ELSE IF func = "max" THEN 0 ELSE 0

Combine(func, a, b) ==
    IF func = "sum" THEN a + b ELSE IF Better(func, b, a) THEN b ELSE a

RECURSIVE Fold(_, _, _, _)
\* The elements row[from .. to] that exist, combined
Fold(func, row, from, to) ==
    IF from > to \/ from > Len(row) THEN Neutral(func)
    ELSE Combine(func, row[from], Fold(func, row, from + 1, to))

\* Elements per work-group: wgMultiple work-items, two float4 each
GroupWidth(wg) == 8 * wg

\* The reduction kernel: work-group g of a row combines the elements of its
\* slice that lie within the n4 float4 of the row, one result per work-group
ReduceKernel(func, row, groups, wg, n4) ==
    [g \in 1..groups |->
        LET last == IF g * GroupWidth(wg) < 4 * n4 THEN g * GroupWidth(wg) ELSE 4 * n4
        IN  Fold(func, row, (g - 1) * GroupWidth(wg) + 1, last)]

\* Argument 3 of groupRecKernel with the number of work-groups before rounding
GroupVectorsUnrounded(cols, wg) == CeilDiv(cols, 8 * wg) \div 4

\* Argument 3 of groupRecKernel: wgXdim / 4, the float4 of partial results per row
GroupVectors(cols, wg) == WgXdimOf(cols, 8 * wg) \div 4

\* Reduce::run on one row: one kernel over the row, or the kernel per
\* work-group into dBufferR and the same reduction over the partial results
ReduceRow(func, row, wg) ==
    LET cols == Len(row)
        wgXdim == WgXdimOf(cols, 8 * wg)
    IN  IF wgXdim = 1
        THEN ReduceKernel(func, row, 1, wg, cols \div 4)[1]
        ELSE LET partial == ReduceKernel(func, row, wgXdim, wg, cols \div 4)
             IN  ReduceKernel(func, partial, 1, wg, GroupVectors(cols, wg))[1]

\* Rows tried: a repeating pattern of 1 .. 5 with one element, at any
\* column, below or above all others
RowsOf(cols) ==
    { [c \in 1..cols |-> IF c = pos THEN v ELSE ((a * c) % 5) + 1] :
        pos \in 1..cols, v \in {0, 9}, a \in 0..2 }

InitReduce ==
    \E func \in ReduceOps, wg \in WgMultiples, n4 \in 1..5 :
        \E row \in RowsOf(4 * n4) :
            /\ ColsError(4 * n4, wg) = ""
            /\ input = [fn |-> "reduce", op |-> func, wg |-> wg,
                        rows |-> <<row, [c \in 1..(4 * n4) |-> row[4 * n4 + 1 - c]]>>]
            /\ output = [dev |-> <<>>, ref |-> <<>>]

\* Reduce::run and the read of the result
ReduceDevice ==
    /\ input.fn = "reduce" /\ output.dev = <<>>
    /\ output' = [output EXCEPT !.dev =
                    [r \in 1..Len(input.rows) |-> ReduceRow(input.op, input.rows[r], input.wg)]]
    /\ UNCHANGED fnFrame

\* cpuReduce, cpuReduceSum
ReduceReference ==
    /\ input.fn = "reduce" /\ output.ref = <<>>
    /\ output' = [output EXCEPT !.ref =
                    [r \in 1..Len(input.rows) |-> cpuReduce(input.op, input.rows[r])]]
    /\ UNCHANGED fnFrame

\* Sampling of the representatives: cpuICPReps after ICPReps::init

\* Side of the grid of landmarks
GridSide == 128

\* The numbers of representatives tried
RepsInputs == {0, 4, 6, 8, 12, 16, 32, 64, 128, 8192}

\* uint stepX = 128 / nrx, uint stepY = 128 / nry
RepsStepX(nr) == GridSide \div RepsX(nr)
RepsStepY(nr) == GridSide \div RepsY(nr)

\* The landmark that representative (gy, gx) is copied from: row yi and
\* column xi / 8 of the grid. The code computes both in uint32_t; a negative
\* value here stands for the value 2^32 larger
RepsSource(nr, gy, gx) ==
    [row |-> gy * RepsStepY(nr) + (RepsStepY(nr) \div 2) - 1,
     col |-> gx * RepsStepX(nr) + (RepsStepX(nr) \div 2) - 1]

\* The sources of out[0], out[1], ... of cpuICPReps
cpuICPReps(nr) ==
    [i \in 1..(RepsX(nr) * RepsY(nr)) |->
        RepsSource(nr, (i - 1) \div RepsX(nr), (i - 1) % RepsX(nr))]

InitReps ==
    \E nr \in RepsInputs :
        /\ input = [fn |-> "reps", nr |-> nr]
        /\ output = <<>>

\* ICPReps::init (nr), then the sampling
RepsSample ==
    /\ input.fn = "reps" /\ output = <<>>
    /\ output' = IF RepsError(input.nr) # ""
                 THEN [error |-> RepsError(input.nr), stepX |-> 0, stepY |-> 0, from |-> <<>>]
                 ELSE [error |-> "", stepX |-> RepsStepX(input.nr),
                       stepY |-> RepsStepY(input.nr), from |-> cpuICPReps(input.nr)]
    /\ UNCHANGED fnFrame

InitFn ==
    /\ SessionFixed /\ ObjIdle /\ EstIdle /\ QueuesIdle /\ AppIdle /\ MemIdle
    /\ (InitTransforms \/ InitReduce \/ InitReps)

NextFn ==
    \/ TransformQuaternion
    \/ TransformMatrix
    \/ ReduceDevice
    \/ ReduceReference
    \/ RepsSample

SpecFn == InitFn /\ [][NextFn]_vars

\* One Reduce or ICPWeights object through repeated calls of init, write,
\* read and run

\* Reduce::Memory
ReduceHandles == {"H_IN", "H_OUT", "D_IN", "D_RED", "D_OUT"}

\* Calls of init on one object
MaxInits == 2

AllStagings == {"NONE", "I", "O", "IO"}

\* The column and row counts of the calls of init
MemCols == {0, 4, 12}
MemRows == {1, 2}

\* A null handle
NullMem == [size |-> 0, by |-> "none"]

\* bufferInSize, bufferGRSize and bufferOutSize in elements of T, and the
\* handles they are the sizes of
ReduceSizes(cols, rows, wgXdim) ==
    [H_IN |-> cols * rows, H_OUT |-> rows,
     D_IN |-> cols * rows, D_RED |-> wgXdim * rows, D_OUT |-> rows]

\* The handles init looks at: the staging buffers the staging flag selects,
\* the device buffers, dBufferR only when a row takes several work-groups
ReduceNeeded(st, wgXdim) ==
    (IF st \in {"I", "IO"} THEN {"H_IN"} ELSE {})
    \cup (IF st \in {"O", "IO"} THEN {"H_OUT"} ELSE {})
    \cup {"D_IN", "D_OUT"}
    \cup (IF wgXdim # 1 THEN {"D_RED"} ELSE {})

\* if (buffer () == nullptr) buffer = cl::Buffer (context, flags, size)
CreateIfNull(m, needed, sizes) ==
    [h \in DOMAIN m |->
        IF h \in needed /\ m[h].size = 0
        THEN [size |-> sizes[h], by |-> "init"] ELSE m[h]]

\* ICPStep::Memory
StepHandles == {"H_IN_F", "H_IN_M", "H_IO_T", "D_IN_F", "D_IN_M", "D_IO_T"}

\* bufferFMSize and bufferTSize in floats
StepSizes(m) ==
    [H_IN_F |-> 8 * m, H_IN_M |-> 8 * m, H_IO_T |-> 8,
     D_IN_F |-> 8 * m, D_IN_M |-> 8 * m, D_IO_T |-> 8]

StepNeeded(st) ==
    (IF st \in {"I", "IO"} THEN {"H_IN_F", "H_IN_M"} ELSE {})
    \cup {"H_IO_T", "D_IN_F", "D_IN_M", "D_IO_T"}

\* ICPWeights::Memory
WeightsHandles == {"H_IN", "H_OUT_W", "H_OUT_SUM_W", "D_IN", "D_OUT_W", "D_GW", "D_OUT_SUM_W"}

\* The element counts of the calls of ICPWeights::init
MemNs == {0, 2, 8}

\* bufferInSize, bufferOutWSize, bufferGWSize and bufferOutSWSize in elements
WeightsSizes(n, wgXdim) ==
    [H_IN |-> n, H_OUT_W |-> n, H_OUT_SUM_W |-> 1,
     D_IN |-> n, D_OUT_W |-> n, D_GW |-> wgXdim, D_OUT_SUM_W |-> 1]

WeightsNeeded(st, wgXdim) ==
    (IF st \in {"I", "IO"} THEN {"H_IN"} ELSE {})
    \cup (IF st \in {"O", "IO"} THEN {"H_OUT_W", "H_OUT_SUM_W"} ELSE {})
    \cup {"D_IN", "D_OUT_W", "D_OUT_SUM_W"}
    \cup (IF wgXdim # 1 THEN {"D_GW"} ELSE {})

\* if (wgXdim > 1) weightKernel = cl::Kernel (..., "icpComputeReduceWeights_WG")
WeightKernelAfterInit(kernel, wgXdim) ==
    IF wgXdim > 1 THEN "icpComputeReduceWeights_WG" ELSE kernel

InitMem ==
    /\ SessionFixed /\ ObjIdle /\ EstIdle /\ QueuesIdle /\ AppIdle /\ FnIdle
    /\ \E wg \in WgMultiples :
        \/ /\ conf = [class |-> "Reduce", wgMultiple |-> wg, inits |-> 0,
                      status |-> "constructed"]
           /\ mem = [h \in ReduceHandles |-> NullMem]
        \/ /\ conf = [class |-> "ICPWeights", wgMultiple |-> wg, inits |-> 0,
                      status |-> "constructed",
                      weightKernel |-> "icpComputeReduceWeights"]
           /\ mem = [h \in WeightsHandles |-> NullMem]
        \/ /\ conf = [class |-> "ICPStep", wgMultiple |-> wg, inits |-> 0,
                      status |-> "constructed"]
           /\ mem = [h \in StepHandles |-> NullMem]
    /\ trace = <<>>

memFrame == <<sessionVars, objVars, estVars, queueVars, appVars, fnVars>>

\* get (mem) = buffer: the caller puts a memory object of its own in a handle
MemAssign ==
    /\ conf.status # "exited"
    /\ \E h \in {"D_IN", "D_OUT", "D_OUT_W", "D_IN_F"} \cap DOMAIN mem, size \in {24} :
        /\ mem[h].by # "caller"
        /\ mem' = [mem EXCEPT ![h] = [size |-> size, by |-> "caller"]]
    /\ UNCHANGED <<memFrame, conf, trace>>

\* Reduce::init
MemInit ==
    /\ conf.class = "Reduce"
    /\ conf.status # "exited" /\ conf.inits < MaxInits
    /\ \E cols \in MemCols, rows \in MemRows, st \in AllStagings :
        LET wgXdim == WgXdimOf(cols, 8 * conf.wgMultiple)
        IN  IF ColsError(cols, conf.wgMultiple) # ""
            THEN /\ conf' = [conf EXCEPT !.status = "exited"]
                 /\ UNCHANGED mem
            ELSE /\ conf' = [class |-> "Reduce", wgMultiple |-> conf.wgMultiple,
                             inits |-> conf.inits + 1, status |-> "initialised",
                             cols |-> cols, rows |-> rows, wgXdim |-> wgXdim,
                             staging |-> st]
                 /\ mem' = CreateIfNull(mem, ReduceNeeded(st, wgXdim),
                                        ReduceSizes(cols, rows, wgXdim))
    /\ UNCHANGED <<memFrame, trace>>

\* The guard of write with the staging flag ignored
StagingInAlways(st) == TRUE

\* if (staging == Staging::I || staging == Staging::IO), the guard of write
StagingIn(st) == st \in {"I", "IO"}

\* if (staging == Staging::O || staging == Staging::IO), the guard of read
StagingOut(st) == st \in {"O", "IO"}

\* Reduce::write (mem, ptr)
MemWrite ==
    /\ conf.class = "Reduce" /\ conf.status = "initialised"
    /\ \E h \in ReduceHandles, ptr \in {"nullptr", "data"} :
        trace' = Append(<<>>,
            [call |-> "write", mem |-> h, staging |-> conf.staging,
             copied |-> StagingIn(conf.staging) /\ h = "D_IN" /\ ptr # "nullptr",
             enqueued |-> IF StagingIn(conf.staging) /\ h = "D_IN"
                          THEN <<"enqueueWriteBuffer">> ELSE <<>>,
             returned |-> "void"])
    /\ UNCHANGED <<memFrame, conf, mem>>

\* Reduce::read (mem)
MemRead ==
    /\ conf.class = "Reduce" /\ conf.status = "initialised"
    /\ \E h \in ReduceHandles :
        trace' = Append(<<>>,
            [call |-> "read", mem |-> h, staging |-> conf.staging,
             copied |-> FALSE,
             enqueued |-> IF StagingOut(conf.staging) /\ h = "H_OUT"
                          THEN <<"enqueueReadBuffer">> ELSE <<>>,
             returned |-> IF StagingOut(conf.staging) /\ h = "H_OUT"
                          THEN "hPtrOut" ELSE "nullptr"])
    /\ UNCHANGED <<memFrame, conf, mem>>

\* Reduce::run
MemRun ==
    /\ conf.class = "Reduce" /\ conf.status = "initialised"
    /\ trace' = Append(<<>>,
            [call |-> "run", mem |-> "none", staging |-> conf.staging,
             copied |-> FALSE,
             enqueued |-> IF conf.wgXdim = 1 THEN <<"recKernel">>
                          ELSE <<"recKernel", "groupRecKernel">>,
             returned |-> "void"])
    /\ UNCHANGED <<memFrame, conf, mem>>

\* ICPWeights::init
WeightsInit ==
    /\ conf.class = "ICPWeights"
    /\ conf.status # "exited" /\ conf.inits < MaxInits
    /\ \E n \in MemNs, st \in AllStagings :
        LET wgXdim == WgXdimOf(n, 2 * conf.wgMultiple)
        IN  IF WeightsError(n, conf.wgMultiple) # ""
            THEN /\ conf' = [conf EXCEPT !.status = "exited"]
                 /\ UNCHANGED mem
            ELSE /\ conf' = [class |-> "ICPWeights", wgMultiple |-> conf.wgMultiple,
                             inits |-> conf.inits + 1, status |-> "initialised",
                             n |-> n, wgXdim |-> wgXdim, staging |-> st,
                             weightKernel |-> WeightKernelAfterInit(conf.weightKernel, wgXdim)]
                 /\ mem' = CreateIfNull(mem, WeightsNeeded(st, wgXdim),
                                        WeightsSizes(n, wgXdim))
    /\ UNCHANGED <<memFrame, trace>>

\* ICPWeights::run
WeightsRun ==
    /\ conf.class = "ICPWeights" /\ conf.status = "initialised"
    /\ trace' = Append(<<>>,
            [call |-> "run", mem |-> "none", staging |-> conf.staging,
             copied |-> FALSE, wgXdim |-> conf.wgXdim,
             enqueued |-> IF conf.wgXdim = 1 THEN <<conf.weightKernel>>
                          ELSE <<conf.weightKernel, "reduce_sum_fd">>,
             returned |-> "void"])
    /\ UNCHANGED <<memFrame, conf, mem>>

\* ICPStep::init, as far as its own members and buffers go: the staging
\* area and the device buffer of the transform are loaded with the identity
StepMemInit ==
    /\ conf.class = "ICPStep"
    /\ conf.status # "exited" /\ conf.inits < MaxInits
    /\ \E m \in {0, 16}, nr \in {4}, a \in {1}, st \in AllStagings :
        IF StepError(m, nr, a) # "" \/ FirstFailing(StageInits(m, nr, conf.wgMultiple)) # 0
        THEN /\ conf' = [conf EXCEPT !.status = "exited"]
             /\ UNCHANGED mem
        ELSE /\ conf' = [class |-> "ICPStep", wgMultiple |-> conf.wgMultiple,
                         inits |-> conf.inits + 1, status |-> "initialised",
                         m |-> m, staging |-> st,
                         hPtrIOT |-> "identity", dBufferIOT |-> "identity"]
             /\ mem' = CreateIfNull(mem, StepNeeded(st), StepSizes(m))
    /\ UNCHANGED <<memFrame, trace>>

\* ICPStep::write (mem, ptr)
StepMemWrite ==
    /\ conf.class = "ICPStep" /\ conf.status = "initialised"
    /\ \E h \in StepHandles, ptr \in {"nullptr", "T0"} :
        LET enabled == StagingIn(conf.staging) /\ h \in {"D_IN_F", "D_IN_M", "D_IO_T"}
            host == IF enabled /\ h = "D_IO_T" /\ ptr # "nullptr" THEN ptr ELSE conf.hPtrIOT
            device == IF enabled /\ h = "D_IO_T" THEN host ELSE conf.dBufferIOT
        IN  /\ conf' = [conf EXCEPT !.hPtrIOT = host, !.dBufferIOT = device]
            /\ trace' = Append(<<>>,
                    [call |-> "write", mem |-> h, staging |-> conf.staging,
                     ptr |-> ptr,
                     copied |-> enabled /\ ptr # "nullptr",
                     enqueued |-> IF enabled THEN <<"enqueueWriteBuffer">> ELSE <<>>,
                     returned |-> "void",
                     dBufferIOT |-> <<conf.dBufferIOT, device>>])
    /\ UNCHANGED <<memFrame, mem>>

\* ICPStep::read (mem)
StepMemRead ==
    /\ conf.class = "ICPStep" /\ conf.status = "initialised"
    /\ \E h \in StepHandles :
        LET enabled == StagingOut(conf.staging) /\ h = "H_IO_T"
        IN  /\ conf' = [conf EXCEPT !.hPtrIOT = IF enabled THEN conf.dBufferIOT ELSE @]
            /\ trace' = Append(<<>>,
                    [call |-> "read", mem |-> h, staging |-> conf.staging,
                     copied |-> FALSE,
                     enqueued |-> IF enabled THEN <<"enqueueReadBuffer">> ELSE <<>>,
                     returned |-> IF enabled THEN "hPtrIOT" ELSE "nullptr"])
    /\ UNCHANGED <<memFrame, mem>>

NextMem ==
    \/ StepMemInit
    \/ StepMemWrite
    \/ StepMemRead
    \/ MemAssign
    \/ MemInit
    \/ MemWrite
    \/ MemRead
    \/ MemRun
    \/ WeightsInit
    \/ WeightsRun

SpecMem == InitMem /\ [][NextMem]_vars

\* The memory handles of one ICPStep object and of its stages through
\* ICPStep::init: a handle holds the number of a memory object, 0 for null

\* handle = source handle
Wire(h, src) == [op |-> "wire", h |-> h, src |-> src]

\* handle = cl::Buffer (context, ...)
Fresh(h) == [op |-> "fresh", h |-> h]

\* The init of a stage, which creates a memory object for each of its
\* handles that is null
StageInit(stage, handles) ==
    [op |-> "init", stage |-> stage,
     creates |-> [i \in 1..Len(handles) |-> <<stage, handles[i]>>]]

\* ICPStep::init, its own device buffers
OwnOps == << StageInit("step", <<"D_IN_F", "D_IN_M", "D_IO_T">>) >>

\* Classes in the initialization step
BuildOps ==
    << Wire(<<"fReps", "D_IN">>, <<"step", "D_IN_F">>),
       Fresh(<<"fReps", "D_OUT">>),
       StageInit("fReps", <<"D_IN", "D_OUT">>),
       Wire(<<"rbcC", "D_IN_X">>, <<"step", "D_IN_F">>),
       Wire(<<"rbcC", "D_IN_R">>, <<"fReps", "D_OUT">>),
       StageInit("rbcC", <<"D_IN_X", "D_IN_R", "D_OUT_X_P", "D_OUT_O", "D_OUT_N">>) >>

TransformOps ==
    << Wire(<<"transform", "D_IN_M">>, <<"step", "D_IN_M">>),
       Wire(<<"transform", "D_IN_T">>, <<"step", "D_IO_T">>),
       Fresh(<<"transform", "D_OUT">>),
       StageInit("transform", <<"D_IN_M", "D_IN_T", "D_OUT">>) >>

SearchOps ==
    << Wire(<<"rbcS", "D_IN_Q">>, <<"transform", "D_OUT">>),
       Wire(<<"rbcS", "D_IN_R">>, <<"fReps", "D_OUT">>),
       Wire(<<"rbcS", "D_IN_X_P">>, <<"rbcC", "D_OUT_X_P">>),
       Wire(<<"rbcS", "D_IN_O">>, <<"rbcC", "D_OUT_O">>),
       Wire(<<"rbcS", "D_IN_N">>, <<"rbcC", "D_OUT_N">>),
       Fresh(<<"rbcS", "D_OUT_NN">>),
       StageInit("rbcS", <<"D_IN_Q", "D_IN_R", "D_IN_X_P", "D_IN_O", "D_IN_N",
                           "D_OUT_Q_P", "D_OUT_NN", "D_OUT_NN_ID">>) >>

WeightsOps ==
    IF CW = "WEIGHTED"
    THEN << Wire(<<"weights", "D_IN">>, <<"rbcS", "D_OUT_NN_ID">>),
            Fresh(<<"weights", "D_OUT_W">>),
            Fresh(<<"weights", "D_OUT_SUM_W">>),
            StageInit("weights", <<"D_IN", "D_OUT_W", "D_GW", "D_OUT_SUM_W">>) >>
    ELSE << >>

MeansOps ==
    << Wire(<<"means", "D_IN_F">>, <<"rbcS", "D_OUT_NN">>),
       Wire(<<"means", "D_IN_M">>, <<"rbcS", "D_OUT_Q_P">>) >>
    \o (IF CW = "WEIGHTED"
        THEN << Wire(<<"means", "D_IN_W">>, <<"weights", "D_OUT_W">>),
                Wire(<<"means", "D_IN_SUM_W">>, <<"weights", "D_OUT_SUM_W">>) >>
        ELSE << >>)
    \o << Fresh(<<"means", "D_OUT">>),
          StageInit("means", <<"D_IN_F", "D_IN_M", "D_OUT">>
                             \o (IF CW = "WEIGHTED" THEN <<"D_IN_W", "D_IN_SUM_W">> ELSE << >>)) >>

\* The deviations stage with D_IN_MEAN left to its own init
DevsOpsOwnMean ==
    << Wire(<<"devs", "D_IN_F">>, <<"rbcS", "D_OUT_NN">>),
       Wire(<<"devs", "D_IN_M">>, <<"rbcS", "D_OUT_Q_P">>),
       Fresh(<<"devs", "D_OUT_DEV_F">>),
       Fresh(<<"devs", "D_OUT_DEV_M">>),
       StageInit("devs", <<"D_IN_F", "D_IN_M", "D_IN_MEAN", "D_OUT_DEV_F", "D_OUT_DEV_M">>) >>

DevsOps ==
    << Wire(<<"devs", "D_IN_F">>, <<"rbcS", "D_OUT_NN">>),
       Wire(<<"devs", "D_IN_M">>, <<"rbcS", "D_OUT_Q_P">>),
       Wire(<<"devs", "D_IN_MEAN">>, <<"means", "D_OUT">>),
       Fresh(<<"devs", "D_OUT_DEV_F">>),
       Fresh(<<"devs", "D_OUT_DEV_M">>),
       StageInit("devs", <<"D_IN_F", "D_IN_M", "D_IN_MEAN", "D_OUT_DEV_F", "D_OUT_DEV_M">>) >>

MatrixSOps ==
    << Wire(<<"matrixS", "D_IN_DEV_M">>, <<"devs", "D_OUT_DEV_M">>),
       Wire(<<"matrixS", "D_IN_DEV_F">>, <<"devs", "D_OUT_DEV_F">>) >>
    \o (IF CW = "WEIGHTED"
        THEN << Wire(<<"matrixS", "D_IN_W">>, <<"weights", "D_OUT_W">>) >> ELSE << >>)
    \o (IF CR = "POWER_METHOD" THEN << Fresh(<<"matrixS", "D_OUT">>) >> ELSE << >>)
    \o << StageInit("matrixS", <<"D_IN_DEV_M", "D_IN_DEV_F", "D_OUT">>
                               \o (IF CW = "WEIGHTED" THEN <<"D_IN_W">> ELSE << >>)) >>

PowMethodOps ==
    IF CR = "POWER_METHOD"
    THEN << Wire(<<"powMethod", "D_IN_S">>, <<"matrixS", "D_OUT">>),
            Wire(<<"powMethod", "D_IN_MEAN">>, <<"means", "D_OUT">>),
            Wire(<<"powMethod", "D_OUT_T_K">>, <<"step", "D_IO_T">>),
            StageInit("powMethod", <<"D_IN_S", "D_IN_MEAN", "D_OUT_T_K">>) >>
    ELSE << >>

\* ICPStep::init, its assignments and init calls in order
WiringOps ==
    OwnOps \o BuildOps \o TransformOps \o SearchOps \o WeightsOps \o MeansOps
           \o DevsOps \o MatrixSOps \o PowMethodOps

\* Every handle of the four variants
AllHandles ==
    { <<"step", "D_IN_F">>, <<"step", "D_IN_M">>, <<"step", "D_IO_T">>,
      <<"fReps", "D_IN">>, <<"fReps", "D_OUT">>,
      <<"rbcC", "D_IN_X">>, <<"rbcC", "D_IN_R">>, <<"rbcC", "D_OUT_X_P">>,
      <<"rbcC", "D_OUT_O">>, <<"rbcC", "D_OUT_N">>,
      <<"transform", "D_IN_M">>, <<"transform", "D_IN_T">>, <<"transform", "D_OUT">>,
      <<"rbcS", "D_IN_Q">>, <<"rbcS", "D_IN_R">>, <<"rbcS", "D_IN_X_P">>,
      <<"rbcS", "D_IN_O">>, <<"rbcS", "D_IN_N">>, <<"rbcS", "D_OUT_Q_P">>,
      <<"rbcS", "D_OUT_NN">>, <<"rbcS", "D_OUT_NN_ID">>,
      <<"weights", "D_IN">>, <<"weights", "D_OUT_W">>, <<"weights", "D_GW">>,
      <<"weights", "D_OUT_SUM_W">>,
      <<"means", "D_IN_F">>, <<"means", "D_IN_M">>, <<"means", "D_IN_W">>,
      <<"means", "D_IN_SUM_W">>, <<"means", "D_OUT">>,
      <<"devs", "D_IN_F">>, <<"devs", "D_IN_M">>, <<"devs", "D_IN_MEAN">>,
      <<"devs", "D_OUT_DEV_F">>, <<"devs", "D_OUT_DEV_M">>,
      <<"matrixS", "D_IN_DEV_M">>, <<"matrixS", "D_IN_DEV_F">>, <<"matrixS", "D_IN_W">>,
      <<"matrixS", "D_OUT">>,
      <<"powMethod", "D_IN_S">>, <<"powMethod", "D_IN_MEAN">>, <<"powMethod", "D_OUT_T_K">> }

\* The memory objects a stage's init creates: the null handles among its
\* handles get the next numbers, in the order of the handles
CreateNull(w, handles) ==
    LET null == { i \in 1..Len(handles) : w.m[handles[i]] = 0 }
        rank(i) == Cardinality({ j \in null : j <= i })
    IN  [w EXCEPT !.m = [h \in DOMAIN w.m |->
                            IF \E i \in null : handles[i] = h
                            THEN w.objects + rank(CHOOSE i \in null : handles[i] = h)
                            ELSE w.m[h]],
                  !.objects = @ + Cardinality(null)]

\* One assignment or init call of ICPStep::init
ApplyOp(w, o) ==
    IF o.op = "wire"
    THEN [w EXCEPT !.m[o.h] = w.m[o.src],
                   !.early = IF o.src[1] \in w.inited THEN @
                             ELSE @ \cup {<<o.h[1], o.src[1]>>}]
    ELSE IF o.op = "fresh"
    THEN [w EXCEPT !.m[o.h] = w.objects + 1, !.objects = @ + 1]
    ELSE LET c == CreateNull(w, o.creates)
         IN  [c EXCEPT !.inited = @ \cup {o.stage}]

RECURSIVE ApplyOps(_, _, _)
\* The assignments and init calls ops[i], ops[i + 1], ... applied in order
ApplyOps(w, ops, i) ==
    IF i > Len(ops) THEN w
    ELSE LET v == ApplyOp(w, ops[i])
         IN  IF v.objects >= w.objects THEN ApplyOps(v, ops, i + 1) ELSE v

InitWire ==
    /\ InitSession /\ cls = "ICPStep" /\ staging = "NONE"
    /\ ObjIdle /\ EstIdle /\ QueuesIdle /\ AppIdle /\ FnIdle
    /\ \E wg \in WgMultiples :
        conf = [class |-> "ICPStep", wgMultiple |-> wg, inits |-> 0,
                status |-> "constructed", m |-> 0, nr |-> 0,
                objects |-> 0, early |-> {}]
    /\ mem = [h \in AllHandles |-> 0]
    /\ trace = <<>>

\* icpStep.get (D_IN_F) = buffer of the caller, as both applications do with
\* the outputs of their landmark extraction
WireAssign ==
    /\ conf.status # "exited"
    /\ \E h \in {<<"step", "D_IN_F">>, <<"step", "D_IN_M">>} :
        /\ mem[h] = 0
        /\ mem' = [mem EXCEPT ![h] = conf.objects + 1]
        /\ conf' = [conf EXCEPT !.objects = @ + 1]
    /\ UNCHANGED <<memFrame, trace>>

\* ICPStep::init
WireInit ==
    /\ conf.status # "exited" /\ conf.inits < MaxInits
    /\ \E m \in {0, 14, 16}, nr \in {0, 2, 4}, a \in {0, 1} :
        IF StepError(m, nr, a) # "" \/ FirstFailing(StageInits(m, nr, conf.wgMultiple)) # 0
        THEN /\ conf' = [conf EXCEPT !.status = "exited"]
             /\ UNCHANGED mem
        ELSE LET w == ApplyOps([m |-> mem, objects |-> conf.objects,
                                inited |-> {}, early |-> {}], WiringOps, 1)
             IN  /\ mem' = w.m
                 /\ conf' = [conf EXCEPT !.inits = @ + 1, !.status = "initialised",
                                         !.m = m, !.nr = nr,
                                         !.objects = w.objects,
                                         !.early = @ \cup w.early]
    /\ UNCHANGED <<memFrame, trace>>

NextWire ==
    \/ WireAssign
    \/ WireInit

SpecWire == InitWire /\ [][NextWire]_vars

\* The transfers of consecutive steps of one session: the read-backs into
\* the staging areas of the stages and the write from hPtrIOT, against the
\* host code that reads and overwrites those areas

\* One command of a step on a queue
Xfer(cmd, step, area) == [cmd |-> cmd, step |-> step, area |-> area]

\* The kernels of a step: rbcS is on the queue of the RBC stages
StepKernelCommands(n) ==
    << Xfer("transform", n, "none"), Xfer("rbcS", n, "none"), Xfer("stages", n, "none") >>

\* The read-backs of a step with both reads returning at once
StepReadsNonBlocking(n) ==
    IF CR = "EIGEN"
    THEN << [x |-> Xfer("means.read", n, "mean"), block |-> FALSE],
            [x |-> Xfer("matrixS.read", n, "Sij"), block |-> FALSE] >>
    ELSE << [x |-> Xfer("powMethod.read", n, "Tk"), block |-> FALSE] >>

\* The read-backs of a step: means.read (H_OUT, CL_FALSE) and matrixS.read
\* (H_OUT) in the closed-form variants, powMethod.read (H_OUT_T_K) otherwise
StepReads(n) ==
    IF CR = "EIGEN"
    THEN << [x |-> Xfer("means.read", n, "mean"), block |-> FALSE],
            [x |-> Xfer("matrixS.read", n, "Sij"), block |-> TRUE] >>
    ELSE << [x |-> Xfer("powMethod.read", n, "Tk"), block |-> TRUE] >>

\* queue.enqueueWriteBuffer (dBufferIOT, CL_FALSE, 0, bufferTSize, hPtrIOT)
WriteT(n) == Xfer("writeT", n, "hPtrIOT")

\* The staging areas the host part of a step reads, and the one it overwrites
HostReads == IF CR = "EIGEN" THEN {"mean", "Sij"} ELSE {"Tk"}
HostWrites == {"hPtrIOT"}

XferQueue(x) == IF x.cmd = "rbcS" THEN queueOf.rbc ELSE queueOf.icp

RECURSIVE XferEnqueue(_, _)
XferEnqueue(queues, xs) ==
    IF xs = << >> THEN queues
    ELSE XferEnqueue([queues EXCEPT ![XferQueue(Head(xs))] = Append(@, Head(xs))], Tail(xs))

\* After init: the write of the identity transform from hPtrIOT is enqueued
InitXfer ==
    /\ InitSession /\ cls = "ICPStep" /\ staging = "NONE"
    /\ ObjIdle /\ EstIdle /\ AppIdle /\ FnIdle /\ MemIdle
    /\ queueOf \in [rbc : QueueIds, icp : QueueIds]
    /\ pending = [qid \in QueueIds |-> IF qid = queueOf.icp THEN << WriteT(0) >> ELSE << >>]
    /\ running = {}
    /\ finished = {}
    /\ early = {}
    /\ hostAt = [step |-> 1, at |-> "call"]

\* ICPStep::run up to its blocking read: the kernels and the read-backs are
\* enqueued and the host waits for the blocking one
XferRun ==
    /\ hostAt.at = "call" /\ hostAt.step <= MaxSteps
    /\ pending' = XferEnqueue(pending,
                      StepKernelCommands(hostAt.step)
                      \o [i \in 1..Len(StepReads(hostAt.step)) |-> StepReads(hostAt.step)[i].x])
    /\ hostAt' = [hostAt EXCEPT !.at = "reading"]
    /\ UNCHANGED <<queueFrame, running, finished, early>>

\* ICPStep::run from the return of its blocking read: the host reads the
\* staging areas of the read-backs, overwrites hPtrIOT with the composed
\* transform and enqueues the non-blocking write from it
XferCompose ==
    /\ hostAt.at = "reading"
    /\ \A i \in 1..Len(StepReads(hostAt.step)) :
        StepReads(hostAt.step)[i].block => StepReads(hostAt.step)[i].x \in finished
    /\ LET inFlight == (running \cup UNION { { pending[qid][i] : i \in 1..Len(pending[qid]) } : qid \in QueueIds })
       IN  early' = early \cup { x \in inFlight : x.area \in HostReads \cup HostWrites }
    /\ pending' = XferEnqueue(pending, << WriteT(hostAt.step) >>)
    /\ hostAt' = [step |-> hostAt.step + 1, at |-> "call"]
    /\ UNCHANGED <<queueFrame, running, finished>>

\* An in-order queue starts its next command when its previous one completed
XferStart ==
    /\ \E qid \in QueueIds :
        /\ pending[qid] # << >>
        /\ \A x \in running : XferQueue(x) # qid
        /\ running' = running \cup {Head(pending[qid])}
        /\ pending' = [pending EXCEPT ![qid] = Tail(@)]
    /\ UNCHANGED <<queueFrame, finished, early, hostAt>>

XferFinish ==
    /\ \E x \in running :
        /\ running' = running \ {x}
        /\ finished' = finished \cup {x}
    /\ UNCHANGED <<queueFrame, pending, early, hostAt>>

NextXfer ==
    \/ XferRun
    \/ XferCompose
    \/ XferStart
    \/ XferFinish

SpecXfer == InitXfer /\ [][NextXfer]_vars

---------------------------------------------------------------------------
\* Predicates shared by the properties

\* ICP::run has returned
Returned == cls = "ICP" /\ op = "run" /\ pc = "ready"

\* The current ICP::run call began right after buildRBC, with k = 0
FreshRun == op = "run" /\ kAtRun = 0 /\ steps = runSteps

\* An ICPStep::run call has just completed
StepDone == op \in {"step", "run"} /\ pc \in {"ready", "check"} /\ log # <<>>

\* Inside ICP::run, in a step that follows a check, before the host
\* overwrites the incremental transform
InLaterStep ==
    /\ op = "run"
    /\ runSteps >= 1
    /\ pc \in {"transform", "rbcS", "weights", "means", "devs", "matrixS",
               "powMethod", "rotation"}

---------------------------------------------------------------------------
\* C1 (as stated in the specification): a run that starts with k = 0 and whose
\* deltas never fall below the thresholds performs exactly max_iterations + 1
\* steps.
C1_StepsAsStated ==
    (Returned /\ FreshRun /\ allAbove) => runSteps = max_iterations + 1

\* C1 (amended): after every step the controller increments k first, then
\* stops if k = max_iterations, otherwise stops if the deltas are below the
\* thresholds, otherwise performs one more step.  A run that starts with
\* k = 0, with max_iterations >= 1, and whose deltas never fall below the
\* thresholds performs exactly max_iterations steps.
C1_StepsAtCap ==
    /\ (Returned /\ FreshRun /\ allAbove /\ max_iterations >= 1)
          => runSteps = max_iterations
    /\ (Returned /\ FreshRun) => (k = runSteps /\ (k = max_iterations \/ Below(qk, tk)))
    /\ (InLaterStep /\ FreshRun) => (k = runSteps /\ k # max_iterations /\ ~Below(qk, tk))

\* C1 witness: a run with max_iterations = 2 that never met the thresholds
\* has returned after two steps.
C1_Witness ==
    Returned /\ FreshRun /\ allAbove /\ max_iterations = 2 /\ runSteps = 2

\* C2: a run started right after buildRBC never executes more than
\* max_iterations + 1 steps, whatever max_iterations and the deltas are.
C2_StepsBoundedByCap ==
    FreshRun => runSteps <= max_iterations + 1

\* C3: buildRBC leaves k = 0, and whenever ICP::run has returned k equals the
\* number of steps executed since the last buildRBC.
C3_KCountsSteps ==
    /\ (cls = "ICP" /\ op = "buildRBC") => k = 0
    /\ Returned => k = steps

\* C3 witness: the second run after one buildRBC has returned; two steps were
\* executed since the build, one of them by this run.
C3_Witness == Returned /\ steps = 2 /\ runSteps = 1 /\ k = 2

\* C4: with positive thresholds and max_iterations >= 1, a run started right
\* after buildRBC on identical clouds (every step yields angle 0 and t_k = 0)
\* performs exactly one step and returns with k = 1.
C4_IdenticalCloudsOneStep ==
    /\ (Returned /\ FreshRun /\ allIdentity /\ max_iterations >= 1
          /\ angle_threshold > 0 /\ translation_threshold > 0)
          => (runSteps = 1 /\ k = 1)
    /\ (InLaterStep /\ FreshRun /\ max_iterations >= 1
          /\ angle_threshold > 0 /\ translation_threshold > 0)
          => ~allIdentity

\* C4 witness: such a run has returned while a larger cap was still open.
C4_Witness ==
    /\ Returned /\ FreshRun /\ allIdentity /\ runSteps = 1
    /\ max_iterations = 2 /\ angle_threshold > 0 /\ translation_threshold > 0

\* C5: when the first step of a registration is about to start (ICP::run
\* called right after buildRBC, no estimate loaded by the caller), the
\* cumulative transform and the device transform buffer are the identity.
C5_IdentityAtRegistrationStart ==
    (FreshRun /\ pc = "transform" /\ runSteps = 0 /\ userT = <<>>)
        => (/\ R = I3 /\ q = QIdentity /\ t = Zero3 /\ s = 1
            /\ dBufferIOT = TIdentity)

\* C6: at every moment the cumulative transform p -> s * R * p + t maps each
\* probe point to the point obtained by applying the incremental transforms
\* T_1, ..., T_n of the steps since init one after the other.
C6_CompositionAgrees ==
    \A i \in 1..Len(Probes) : Apply(s, R, t, Probes[i]) = seqP[i]

\* C6 witness: two steps of the weighted power-method variant have been
\* composed into a transform with rotation, translation and scale.
C6_Witness ==
    /\ CR = "POWER_METHOD" /\ CW = "WEIGHTED"
    /\ pc = "ready" /\ total >= 2
    /\ R # I3 /\ t # Zero3 /\ s # 1

C8_EstimateRefined ==
    (StepDone /\ total = 1 /\ userT # <<>>) =>
        LET R0 == MatFromQuat(userT[1])
            expR == ComposeR(Rk, R0)
            expT == ComposeT(sk, Rk, userT[2], tk)
            expS == ComposeS(sk, userT[3])
        IN /\ R = expR /\ q = QuatFromMat(expR) /\ t = expT /\ s = expS
           /\ dBufferIOT = Pack(QuatFromMat(expR), expT, expS)

\* The stages the specification lists for one step of variant (CR, CW)
ListedStages ==
    <<"transform", "rbcS">>
    \o (IF CW = "WEIGHTED" THEN <<"weights">> ELSE <<>>)
    \o <<"means", "devs", "matrixS">>
    \o (IF CR = "POWER_METHOD" THEN <<"powMethod", "rotation">> ELSE <<"rotation">>)
    \o <<"compose", "writeT">>

IsIndexBuild(stage) == stage \in {"fReps", "rbcC"}

IsListed(stage) == ~IsIndexBuild(stage)

\* C9: a completed ICPStep::run call, in each variant and overload, has run
\* each listed stage exactly once and in the listed order; a call in progress
\* has run a prefix of the list.
C9_StagesInOrder ==
    LET done == SelectSeq(log, IsListed) IN
    /\ StepDone => done = ListedStages
    /\ (op \in {"step", "run"} /\ pc # "ready")
          => (Len(done) <= Len(ListedStages) /\ done = SubSeq(ListedStages, 1, Len(done)))

\* C9 witness: a step of the weighted power-method variant has completed.
C9_Witness ==
    StepDone /\ CR = "POWER_METHOD" /\ CW = "WEIGHTED" /\ Len(log) >= 10

\* C10: when the correspondence search of a step is about to execute, the
\* step has built the index (sampling, then construction) if and only if it
\* was invoked with config set.
C10_ConfigRebuildsIndex ==
    (op \in {"step", "run"} /\ pc = "rbcS") =>
        (config <=> SelectSeq(log, IsIndexBuild) = <<"fReps", "rbcC">>)

\* R * R^T = I
Orthonormal(m) ==
    FiniteMat(m) /\ MatMul(m, [i \in 1..3 |-> [j \in 1..3 |-> m[j][i]]]) = I3

\* C11: at every moment the cumulative rotation R is orthonormal and the
\* cumulative scale s is strictly positive (not zero, not negative, not a
\* not-a-number), whatever covariance bundle the steps produced.
C11_RotationOrthonormalScalePositive ==
    /\ Orthonormal(R)
    /\ s # NaN /\ FLt(0, s)

\* The last step produced an incremental transform with a not-a-number or
\* an infinity in it
AnomalousStep == ~(FiniteVec(qk) /\ FiniteVec(tk) /\ IsFinite(sk))

\* C14: a run whose last step produced a not-a-number or infinite
\* incremental transform was not stopped by that step: it returned only
\* because k reached max_iterations; and while k has not reached it the
\* controller goes on to the next step.
C14_AnomalyNeverStopsRun ==
    /\ (Returned /\ FreshRun /\ AnomalousStep) => k = max_iterations
    /\ (Returned /\ FreshRun) => (k = max_iterations \/ (~AnomalousStep /\ Below(qk, tk)))

\* C14 witness: with positive thresholds, a run has returned at the cap after
\* two steps, both with anomalous incremental transforms.
C14_Witness ==
    /\ Returned /\ FreshRun /\ AnomalousStep /\ runSteps = 2 /\ max_iterations = 2
    /\ angle_threshold > 0 /\ translation_threshold > 0
    /\ ~IsFinite(s)

\* C13: Reduce::init and Scan::init reject a column count exactly when it is
\* zero, not a multiple of 4, or above (8 * wgMultiple)^2; a rejection prints
\* an error naming the class and ends the process with no buffer created and
\* no command or kernel enqueued; every other column count is accepted.
C13_ColsRejectedExactly ==
    (kind \in {"Reduce", "Scan"} /\ status # "constructed") =>
        IF \/ obj.cols = 0
           \/ obj.cols % 4 # 0
           \/ obj.cols > (8 * wgMultiple) * (8 * wgMultiple)
        THEN /\ status = "exited"
             /\ message # <<>> /\ message[1] = kind
             /\ buffers = 0 /\ commands = 0 /\ kernels = <<>>
        ELSE /\ status = "initialised" /\ message = <<>>
             /\ buffers > 0

\* C13 witness: a Scan was given the first multiple of 4 above the size
\* limit and the process ended in init.
C13_Witness ==
    /\ kind = "Scan" /\ status = "exited"
    /\ obj.cols = (8 * wgMultiple) * (8 * wgMultiple) + 4
    /\ buffers = 0 /\ kernels = <<>>

\* C15: Reduce::run enqueues exactly one kernel when cols <= 8 * wgMultiple
\* (wgXdim = 1), carrying the caller's wait-list and event; otherwise exactly
\* two, the per-work-group reduction first and the reduction of the partial
\* results second, with the caller's event on the second and not on the first.
C15_ReduceKernelCount ==
    (kind = "Reduce" /\ kernels # <<>>) =>
        IF obj.cols <= 8 * wgMultiple
        THEN /\ obj.wgXdim = 1
             /\ kernels = << [kernel |-> "recKernel", events |-> TRUE, event |-> TRUE] >>
        ELSE /\ obj.wgXdim # 1
             /\ Len(kernels) = 2
             /\ kernels[1].kernel = "recKernel" /\ ~kernels[1].event
             /\ kernels[2].kernel = "groupRecKernel" /\ kernels[2].event

\* C15 witness: a Reduce over rows one element group longer than a
\* work-group covers has run with two kernels.
C15_Witness ==
    /\ kind = "Reduce" /\ Len(kernels) = 2
    /\ obj.cols = 8 * wgMultiple + 4
    /\ kernels[2].event

IsPowerOfTwo(n) == \E e \in 0..n : 2^e = n

\* C16: after an accepted ICPReps::init the grid has nrx * nry = nr, both
\* dimensions are powers of two, and nrx is nry or twice nry.
C16_GridCoversNr ==
    (kind = "ICPReps" /\ status = "initialised") =>
        /\ obj.nrx * obj.nry = obj.nr
        /\ IsPowerOfTwo(obj.nrx) /\ IsPowerOfTwo(obj.nry)
        /\ (obj.nrx = obj.nry \/ obj.nrx = 2 * obj.nry)

\* A configuration no session can work with: an empty set, a zero scale
\* factor (alpha of the index, c of the deviations), a landmark count off the
\* alignment or above the size limit of the centroid or covariance stage, a
\* representative count off the alignment or not a power of two
ConfigurationError(o, wg) ==
    \/ o.m = 0 \/ o.nr = 0
    \/ o.a = 0 \/ o.c = 0
    \/ o.m % 2 # 0 \/ o.m > (2 * wg) * (2 * wg)
    \/ ((o.m + 3) \div 4) % 4 # 0 \/ (o.m + 3) \div 4 > (8 * wg) * (8 * wg)
    \/ o.nr % 4 # 0 \/ ~IsPowerOfTwo(o.nr)

\* C12: a session configured with a configuration error never gets past
\* init: the process has ended there with a message and without a kernel
\* enqueued.
C12_ConfigurationErrorsEndInit ==
    (kind = "ICPStep" /\ status # "constructed" /\ ConfigurationError(obj, wgMultiple)) =>
        /\ status = "exited"
        /\ message # <<>>
        /\ kernels = <<>>

\* The incremental transform e is the relation that made the pairs
Recovers(e, truth) ==
    /\ e.Rk = truth.R
    /\ e.tk = truth.t
    /\ e.sk * truth.s[2] = truth.s[1]

\* C17: from pairs with fixed_i = s* * R* * moving_i + t*, one step's
\* incremental transform is that relation, R_k = R*, t_k = t* and s_k = s*,
\* in the closed form and in the power method.
C17_RecoversRelation ==
    /\ (est # <<>> /\ est.eigen # <<>>) => Recovers(est.eigen, pairs.truth)
    /\ (est # <<>> /\ est.power # <<>>) => Recovers(est.power, pairs.truth)

\* C20: with every weight 1 the weighted centroid is the regular centroid
\* and the 11 scalars of the weighted covariance bundle are those of the
\* regular bundle.
C20_UnitWeightsAgree ==
    (est # <<>> /\ est.stage = "matrixS" /\ \A j \in 1..pairs.n : pairs.W[j] = 1) =>
        /\ est.meanW = est.mean
        /\ \A idx \in 1..11 : est.Sw[idx] = est.S[idx]

\* C20 witness: both bundles have been computed from unit weights, for pairs
\* whose centroids are not the origin and with c = 2.
C20_Witness ==
    /\ est # <<>> /\ est.stage = "matrixS"
    /\ \A j \in 1..pairs.n : pairs.W[j] = 1
    /\ pairs.c = 2
    /\ est.mean.m # Zero3 /\ est.mean.f # est.mean.m
    /\ est.Sw[10] > 0 /\ est.Sw[11] > 0

\* C18: whichever queues the RBC stages and the ICP stages were given, no
\* stage starts before the stages that produce its inputs have finished:
\* rbcC after fReps, rbcS after transform, means and devs after rbcS.
C18_ProducerBeforeConsumer ==
    early = {}

\* What a session prints and passes when it is the only session of the
\* process: a step-by-step session configures the search in its first step
\* only and numbers its steps from 0; a registration configures the search in
\* every registerPC
AsWhenAlone(ses) ==
    \A j \in 1..Len(ses.configs) :
        IF ses.app = "ICPSBS"
        THEN ses.configs[j] = (j = 1) /\ ses.printed[j] = j - 1
        ELSE ses.configs[j] = TRUE

\* C19: whatever was done on the other session, each session behaves as it
\* does when it is alone.
C19_SessionsIndependent ==
    sessions # <<>> => \A i \in SessionIds : AsWhenAlone(sessions[i])

\* C21: on points whose fourth component is 1, the quaternion applicator and
\* the matrix applicator given the same similarity transform produce the same
\* points, and components 4 to 8 of each output point are those of the input.
C21_ApplicatorsAgree ==
    (/\ input.fn = "transform"
     /\ output.Q # <<>> /\ output.M # <<>>
     /\ \A i \in 1..Len(input.M) : input.M[i][4] = 1) =>
        /\ output.Q = output.M
        /\ \A i \in 1..Len(input.M) : \A j \in 4..8 : output.Q[i][j] = input.M[i][j]

\* C21 witness: both applicators have transformed two distinct points with
\* fourth component 1 by a rotation of 120 degrees, a translation and scale 2.
C21_Witness ==
    /\ input.fn = "transform"
    /\ output.Q # <<>> /\ output.M # <<>>
    /\ \A i \in 1..Len(input.M) : input.M[i][4] = 1
    /\ input.M[1] # input.M[2]
    /\ input.T = <<<<1, 1, 1, 1>>, <<8, 0, -16>>, 2>>

\* C22: for every accepted array the row-wise result of the device path, in
\* one level or in two, is the naive sequential min, max or sum of each row.
C22_ReduceMatchesNaive ==
    (input.fn = "reduce" /\ output.dev # <<>> /\ output.ref # <<>>) =>
        output.dev = output.ref

\* C22 witness: a minimum was taken in two levels over rows of 12 columns
\* with work-groups of 8, the smallest element being in the last column of
\* the first row.
C22_Witness ==
    /\ input.fn = "reduce" /\ output.dev # <<>> /\ output.ref # <<>>
    /\ input.op = "min" /\ input.wg = 1 /\ Len(input.rows[1]) = 12
    /\ input.rows[1][12] = 0
    /\ output.dev[1] = 0

\* C23: every correspondence search of a session whose clouds were loaded
\* uses an index built from the fixed landmarks of the latest load.
C23_SearchUsesCurrentIndex ==
    sessions # <<>> =>
        \A i \in SessionIds : \A j \in 1..Len(sessions[i].searched) :
            sessions[i].searched[j][2] >= 1 =>
                sessions[i].searched[j][1] = sessions[i].searched[j][2]

\* C24: no stage of run has started while an event of the wait-list given to
\* run is incomplete.
C24_RunWaitsForEvents ==
    (\E i \in 1..Len(StepKernels) : StepKernels[i] \in running \cup finished) =>
        UserEvents \subseteq finished

\* C25: after any sequence of init calls a memory object the caller assigned
\* is still in its handle, and every other buffer that run, write and read
\* use is at least as large as the latest configuration requires.
C25_BuffersFitConfiguration ==
    (conf # <<>> /\ conf.class = "Reduce" /\ conf.status = "initialised") =>
        \A h \in ReduceNeeded(conf.staging, conf.wgXdim) :
            mem[h].by # "caller" =>
                mem[h].size >= ReduceSizes(conf.cols, conf.rows, conf.wgXdim)[h]

\* C26: a run of ICPWeights launches the fused weight-and-sum kernel alone
\* when the latest init found that the row fits one work-group, and the
\* per-work-group weight kernel followed by the sum of the groups otherwise.
C26_KernelsFollowLatestInit ==
    (conf # <<>> /\ conf.class = "ICPWeights" /\ trace # <<>>) =>
        trace[1].enqueued =
            (IF trace[1].wgXdim = 1 THEN <<"icpComputeReduceWeights">>
             ELSE <<"icpComputeReduceWeights_WG", "reduce_sum_fd">>)

\* The pairs of a consumer's input handle and its producer's output handle
\* that C27 names, for the variant at hand
NamedAliases ==
    { <<<<"rbcS", "D_IN_Q">>, <<"transform", "D_OUT">>>>,
      <<<<"means", "D_IN_F">>, <<"rbcS", "D_OUT_NN">>>>,
      <<<<"means", "D_IN_M">>, <<"rbcS", "D_OUT_Q_P">>>>,
      <<<<"devs", "D_IN_F">>, <<"rbcS", "D_OUT_NN">>>>,
      <<<<"devs", "D_IN_M">>, <<"rbcS", "D_OUT_Q_P">>>>,
      <<<<"devs", "D_IN_MEAN">>, <<"means", "D_OUT">>>>,
      <<<<"matrixS", "D_IN_DEV_F">>, <<"devs", "D_OUT_DEV_F">>>>,
      <<<<"matrixS", "D_IN_DEV_M">>, <<"devs", "D_OUT_DEV_M">>>> }
    \cup (IF CR = "POWER_METHOD"
          THEN { <<<<"powMethod", "D_IN_S">>, <<"matrixS", "D_OUT">>>>,
                 <<<<"powMethod", "D_IN_MEAN">>, <<"means", "D_OUT">>>> }
          ELSE {})

\* C27: after ICPStep::init of any variant, no handle was taken from a stage
\* that had not been initialised yet, and every consumer's input handle
\* holds the same, non-null, memory object as its producer's output handle.
C27_ConsumersAliasProducers ==
    (conf # <<>> /\ conf.class = "ICPStep" /\ conf.status = "initialised") =>
        /\ conf.early = {}
        /\ \A p \in NamedAliases : mem[p[1]] # 0 /\ mem[p[1]] = mem[p[2]]

\* C27 witness: a weighted power-method object was initialised twice, the
\* second init having replaced the output of the centroid stage, and the
\* extractor reads the covariance output.
C27_Witness ==
    /\ conf # <<>> /\ conf.class = "ICPStep" /\ conf.status = "initialised"
    /\ conf.inits = 2 /\ CR = "POWER_METHOD" /\ CW = "WEIGHTED"
    /\ mem[<<"powMethod", "D_IN_S">>] = mem[<<"matrixS", "D_OUT">>]
    /\ mem[<<"powMethod", "D_IN_S">>] # 0
    /\ mem[<<"devs", "D_IN_MEAN">>] > 20

\* C28: when the host part of a step reads the staging areas of the
\* read-backs and overwrites hPtrIOT, no transfer into or out of those areas
\* is pending or executing: the centroid read-back of this step and the
\* write of the previous step have completed.
C28_NoHostAccessDuringTransfer ==
    hostAt \in [step : 1..(MaxSteps + 1), at : {"call", "reading"}] => early = {}

\* C28 witness: the host has composed the transform of the second step of a
\* closed-form session, the centroid read-back of that step and the write
\* of the first step being complete.
C28_Witness ==
    /\ hostAt \in [step : {3}, at : {"call"}]
    /\ CR = "EIGEN"
    /\ Xfer("means.read", 2, "mean") \in finished
    /\ Xfer("writeT", 1, "hPtrIOT") \in finished
    /\ early = {}

\* C29: for every accepted number of representatives the two strides are
\* positive, every representative is copied from a row and a column between
\* 0 and 127, and later representatives come from later landmarks in
\* row-major order.
C29_RepresentativesFromValidLandmarks ==
    (input.fn = "reps" /\ output # <<>> /\ output.error = "") =>
        /\ output.stepX > 0 /\ output.stepY > 0
        /\ \A i \in 1..Len(output.from) :
            /\ output.from[i].row \in 0..(GridSide - 1)
            /\ output.from[i].col \in 0..(GridSide - 1)
        /\ \A i \in 1..(Len(output.from) - 1) :
            output.from[i].row * GridSide + output.from[i].col
                < output.from[i + 1].row * GridSide + output.from[i + 1].col

\* The input device buffers write accepts and the output staging buffers
\* read accepts, per class
InputDeviceBuffers == {"D_IN", "D_IN_F", "D_IN_M", "D_IO_T"}
OutputStagingBuffers == {"H_OUT", "H_IO_T"}

\* C30: a write that copied or enqueued anything was made with staging I or
\* IO on an input device buffer, a read that enqueued anything or returned a
\* pointer was made with staging O or IO on an output staging buffer, and a
\* write of an estimate to D_IO_T with staging NONE left the device
\* transform buffer as it was.
C30_TransfersNeedStaging ==
    (conf # <<>> /\ conf.class \in {"Reduce", "ICPStep"} /\ trace # <<>>) =>
        LET c == trace[1]
        IN  /\ (c.call = "write" /\ (c.copied \/ c.enqueued # <<>>)) =>
                    (c.staging \in {"I", "IO"} /\ c.mem \in InputDeviceBuffers)
            /\ (c.call = "read" /\ (c.enqueued # <<>> \/ c.returned # "nullptr")) =>
                    (c.staging \in {"O", "IO"} /\ c.mem \in OutputStagingBuffers)
            /\ (conf.class = "ICPStep" /\ c.call = "write" /\ c.staging = "NONE") =>
                    c.dBufferIOT[1] = c.dBufferIOT[2]

\* C30 witness: write (D_IO_T, T0) was called on an ICPStep object initialised
\* with Staging::NONE, and the device transform buffer still holds the
\* identity.
C30_Witness ==
    /\ conf # <<>> /\ conf.class = "ICPStep" /\ trace # <<>>
    /\ trace[1].call = "write" /\ trace[1].staging = "NONE"
    /\ trace[1].mem = "D_IO_T" /\ trace[1].ptr = "T0"
    /\ trace[1].enqueued = <<>>
    /\ conf.dBufferIOT = "identity"

=============================================================================
